---- MODULE Spec2Model ----
(***************************************************************************)
(* A model of the "indice" learning-index application: the enrich-modules, *)
(* process-text and auth endpoints, the route middleware, and the state of *)
(* the client pages that call them.                                        *)
(*                                                                         *)
(* Strings that the code inspects character by character (module titles,   *)
(* provider texts, request paths) are sequences of one-character strings.  *)
(***************************************************************************)
EXTENDS Integers, Sequences, FiniteSets, TLC

VARIABLES
    \* ---- one request to POST /api/enrich-modules (server side)
    ePc,            \* "idle" | "loop" | "await" | "done"
    eReq,           \* the request: [key, body]
    eI,             \* position of the for..of loop in learning_modules
    eQuery,         \* body.query of the search call last issued
    eInFlight,      \* search calls issued and not yet answered
    eSent,          \* positions of the modules a search call was issued for
    eTavily,        \* the search provider's answer being handled
    enrichedModules,\* enrichedModules.enriched_modules
    eStatus,        \* status of the NextResponse (0: none yet)
    \* ---- the app page (client side)
    result,         \* useState result: Null or a LearningIndexResponse
    isLoading,      \* useState isLoading
    isEnriching,    \* useState isEnriching
    enrichingModule,\* useState enrichingModule: NullOrder or a module order
    pending,        \* fetches awaited by the page's handlers, with their closures
    cActions,       \* user actions taken so far
    cDone,          \* the handler that completed in the last step, if any
    isAnalyzing,    \* useState isAnalyzing
    technicalAnalysisData,          \* useState: Null or the analysis held
    showTechnicalAnalysisModal,     \* useState showTechnicalAnalysisModal
    analyzingResourceKey,           \* useState: Null or <<moduleOrder, resourceIndex>>
    \* ---- one request to POST /api/process-text (server side)
    tPc,            \* "idle" | "calling" | "done"
    tReq,           \* the request and the server's credentials
    tCalls,         \* the provider calls of this request: [vendor, key]
    tOutcome,       \* what the provider call produced
    tStatus,        \* status of the NextResponse (0: none yet)
    tBody,          \* the JSON body of a 200 answer
    \* ---- one application of cleanJsonResponse
    cjIn,           \* the raw text, by its parts
    cjDone,         \* the function has returned
    cjOut,          \* what it returned
    \* ---- the browser and the server's access control
    cookieJar,      \* value of the cookie "authenticated" ("none": not set)
    sessionFlag,    \* the tabs whose sessionStorage holds authenticated=true
    tabs,           \* per tab: page shown, its address, the pending request
    accessPassword, \* ACCESS_PASSWORD of the server
    served,         \* requests answered so far
    navLast,        \* the last request, auth answer or checkAuth run
    \* ---- one request to POST /api/technical-analysis (server side)
    aPc,            \* "idle" | "calling" | "done"
    aReq,           \* the request and the server's credentials
    aCalls,         \* the vendors called for this request, in order
    aOutcome,       \* what the provider call produced
    aStatus,        \* status of the NextResponse (0: none yet)
    aBody,          \* the JSON body of a 200 answer
    \* ---- one composition of a prompt
    pIn,            \* the endpoint and the text it received
    pDone,          \* the prompt has been composed
    pOut            \* the prompt

enrichVars ==
    <<ePc, eReq, eI, eQuery, eInFlight, eSent, eTavily, enrichedModules, eStatus>>

modalVars ==
    <<isAnalyzing, technicalAnalysisData, showTechnicalAnalysisModal,
      analyzingResourceKey>>

clientVars ==
    <<result, isLoading, isEnriching, enrichingModule, pending, cActions, cDone,
      modalVars>>

textVars == <<tPc, tReq, tCalls, tOutcome, tStatus, tBody>>

cleanVars == <<cjIn, cjDone, cjOut>>

navVars == <<cookieJar, sessionFlag, tabs, accessPassword, served, navLast>>

analysisVars == <<aPc, aReq, aCalls, aOutcome, aStatus, aBody>>

promptVars == <<pIn, pDone, pOut>>

vars ==
    <<enrichVars, clientVars, textVars, cleanVars, navVars, analysisVars,
      promptVars>>

----------------------------------------------------------------------------
(* Bounds of the model *)

MaxModules == 2     \* modules in a learning index
MaxReturned == 3    \* results in one search-provider response
MaxPending == 2     \* fetches the page awaits at the same time
MaxActions == 4     \* user actions on the page in one run
MaxProse == 2       \* characters of prose after the JSON object
MaxTabs == 2        \* browser tabs
MaxRequests == 6    \* page requests answered in one run

(* Program constants *)

QueryCap == 400
QueryKeep == 380
MaxResultsAsked == 2

----------------------------------------------------------------------------
(* Strings *)



----------------------------------------------------------------------------
(* The search provider *)





\* What one fetch to the search provider can produce.
Outcomes ==
    [kind : {"ok"},
     results : {[i \in 1..n |-> [title |-> u, url |-> u, score |-> 1,
                                     content |-> "c", raw_content |-> "raw"]] :
                    n \in 0..MaxReturned, u \in {"u1", "u2"}}]
        \cup [kind : {"http"}, status : {401, 429, 500}]
        \cup {[kind |-> "throw"],        \* fetch rejects (network error)
              [kind |-> "badjson"],      \* 2xx whose body does not parse
              [kind |-> "noresults"]}    \* 2xx whose body has no results field

NoOutcome == [kind |-> "none"]

----------------------------------------------------------------------------
(* POST /api/enrich-modules *)

truncateQuery_NoCut(query) == query

truncateQuery(query) ==
    IF Len(query) > QueryCap THEN SubSeq(query, 1, QueryKeep) ELSE query

\* Map Tavily results to the Resource interface.
MapResults(results) ==
    [i \in 1..Len(results) |->
        [title |-> results[i].title, url |-> results[i].url,
         score |-> results[i].score, content |-> results[i].content]]

EmptyEntry(module) == [module_title |-> module.title, resources |-> <<>>]

\* The body of the loop after the fetch has settled with outcome o:
\* [abort |-> status to answer with (0: go on), acc |-> enriched_modules].
HandleTavily_DropOnError(acc, module, o) ==
    CASE o.kind = "ok" ->
            [abort |-> 0,
             acc |-> Append(acc, [module_title |-> module.title,
                                  resources |-> MapResults(o.results)])]
      [] o.kind = "noresults" ->
            [abort |-> 0, acc |-> Append(acc, EmptyEntry(module))]
      [] o.kind = "http" /\ o.status \in {401, 429} ->
            [abort |-> o.status, acc |-> acc]
      [] OTHER -> [abort |-> 0, acc |-> acc]

HandleTavily_NoAbort(acc, module, o) ==
    CASE o.kind = "ok" ->
            [abort |-> 0,
             acc |-> Append(acc, [module_title |-> module.title,
                                  resources |-> MapResults(o.results)])]
      [] OTHER -> [abort |-> 0, acc |-> Append(acc, EmptyEntry(module))]

HandleTavily(acc, module, o) ==
    CASE o.kind = "http" /\ o.status = 401 -> [abort |-> 401, acc |-> acc]
      [] o.kind = "http" /\ o.status = 429 -> [abort |-> 429, acc |-> acc]
      [] o.kind = "http" -> [abort |-> 0, acc |-> Append(acc, EmptyEntry(module))]
      [] o.kind = "ok" ->
            [abort |-> 0,
             acc |-> Append(acc, [module_title |-> module.title,
                                  resources |-> MapResults(o.results)])]
      [] o.kind = "noresults" ->
            [abort |-> 0, acc |-> Append(acc, EmptyEntry(module))]
      [] OTHER -> \* "throw", "badjson": the inner catch
            [abort |-> 0, acc |-> Append(acc, EmptyEntry(module))]

SeqsUpTo(S, n) == UNION {[1..k -> S] : k \in 0..n}

\* The bodies a request to the endpoint can carry.
EnrichBodies ==
    {[kind |-> "unparsable"],       \* request.json() rejects
     [kind |-> "noModules"]}        \* null, or learning_modules missing / no array
        \cup [kind : {"index"}, learning_modules :
                \* titles around the truncation threshold, a short one, none
                SeqsUpTo([order : {1},
                          title : {[i \in 1..n |-> "a"] :
                                      n \in {1, QueryKeep, QueryCap, QueryCap + 1}}
                                  \cup {<<"b">>}]
                            \cup {[order |-> 1]},
                         MaxModules)]


HasTitle(module) == "title" \in DOMAIN module

EnrichInit ==
    /\ ePc = "idle"
    /\ eReq = [key |-> FALSE, body |-> [kind |-> "noModules"]]
    /\ eI = 0
    /\ eQuery = <<>>
    /\ eInFlight = 0
    /\ eSent = <<>>
    /\ eTavily = NoOutcome
    /\ enrichedModules = <<>>
    /\ eStatus = 0

\* Lines 22-50: the credential check, the body parse and the format check.
EnrichReceive ==
    /\ ePc = "idle"
    /\ \E req \in ([key : BOOLEAN, body : EnrichBodies]) :
        /\ eReq' = req
        /\ IF ~req.key
             THEN ePc' = "done" /\ eStatus' = 500
             ELSE IF req.body.kind = "unparsable"
             THEN ePc' = "done" /\ eStatus' = 500
             ELSE IF req.body.kind = "noModules"
             THEN ePc' = "done" /\ eStatus' = 400
             ELSE ePc' = "loop" /\ eStatus' = 0
    /\ eI' = 1
    /\ enrichedModules' = <<>>
    /\ UNCHANGED <<eQuery, eInFlight, eSent, eTavily>>
    /\ UNCHANGED <<clientVars, textVars, cleanVars, navVars, analysisVars,
                   promptVars>>

EnrichSend_All ==
    /\ ePc \in {"loop", "await"}
    /\ Len(eSent) < Len(eReq.body.learning_modules)
    /\ \A k \in 1..Len(eReq.body.learning_modules) :
            HasTitle(eReq.body.learning_modules[k])
    /\ eQuery' = truncateQuery(eReq.body.learning_modules[Len(eSent) + 1].title)
    /\ eInFlight' = eInFlight + 1
    /\ eSent' = Append(eSent, Len(eSent) + 1)
    /\ ePc' = "await"
    /\ eTavily' = NoOutcome
    /\ UNCHANGED <<eReq, eI, enrichedModules, eStatus>>
    /\ UNCHANGED <<clientVars, textVars, cleanVars, navVars, analysisVars,
                   promptVars>>

\* Lines 53-67: the next module's query is built and the search call issued.
\* truncateQuery reads title.length outside the inner try: a module without
\* a title ends the request in the outer catch.
EnrichSend ==
    /\ ePc = "loop"
    /\ eI <= Len(eReq.body.learning_modules)
    /\ LET module == eReq.body.learning_modules[eI] IN
        IF HasTitle(module)
          THEN /\ eQuery' = truncateQuery(module.title)
               /\ eInFlight' = eInFlight + 1
               /\ eSent' = Append(eSent, eI)
               /\ ePc' = "await"
               /\ UNCHANGED eStatus
          ELSE /\ ePc' = "done"
               /\ eStatus' = 500
               /\ UNCHANGED <<eQuery, eInFlight, eSent>>
    /\ eTavily' = NoOutcome
    /\ UNCHANGED <<eReq, eI, enrichedModules>>
    /\ UNCHANGED <<clientVars, textVars, cleanVars, navVars, analysisVars,
                   promptVars>>

\* Lines 69-124: the fetch settles and the loop body handles its outcome.
EnrichSettle ==
    /\ ePc = "await"
    /\ \E o \in Outcomes :
        LET r == HandleTavily(enrichedModules, eReq.body.learning_modules[eI], o) IN
        /\ eTavily' = o
        /\ IF r.abort # 0
             THEN /\ ePc' = "done"
                  /\ eStatus' = r.abort
                  /\ UNCHANGED <<eI, enrichedModules>>
             ELSE /\ ePc' = "loop"
                  /\ enrichedModules' = r.acc
                  /\ eI' = eI + 1
                  /\ UNCHANGED eStatus
    /\ eInFlight' = eInFlight - 1
    /\ UNCHANGED <<eReq, eQuery, eSent>>
    /\ UNCHANGED <<clientVars, textVars, cleanVars, navVars, analysisVars,
                   promptVars>>

\* Lines 127-128: the loop is over, the endpoint answers 200.
EnrichRespond ==
    /\ ePc = "loop"
    /\ eI > Len(eReq.body.learning_modules)
    /\ ePc' = "done"
    /\ eStatus' = 200
    /\ UNCHANGED <<eReq, eI, eQuery, eInFlight, eSent, eTavily, enrichedModules>>
    /\ UNCHANGED <<clientVars, textVars, cleanVars, navVars, analysisVars,
                   promptVars>>

EnrichNext == EnrichReceive \/ EnrichSend \/ EnrichSettle \/ EnrichRespond


\* The endpoint as one function of the request's modules and of the outcomes
\* of its search calls, for the page that awaits its answer.
RECURSIVE EnrichLoop(_, _, _, _)
EnrichLoop(modules, i, acc, outs) ==
    IF i > Len(modules) THEN [status |-> 200, enriched_modules |-> acc]
    ELSE IF ~HasTitle(modules[i]) THEN [status |-> 500, enriched_modules |-> <<>>]
    ELSE LET r == HandleTavily(acc, modules[i], outs[i]) IN
         IF r.abort # 0 THEN [status |-> r.abort, enriched_modules |-> <<>>]
         ELSE EnrichLoop(modules, i + 1, r.acc, outs)

----------------------------------------------------------------------------
(* The app page *)

Null == [kind |-> "null"]
NullOrder == 0

\* Modules as the process-text endpoint hands them over: neither order nor
\* title is checked for uniqueness there, and no field of a module is checked
\* at all.  Three kinds give an index of distinct orders and titles, one of
\* equal orders and one of equal titles.
ClientModules ==
    {m \in [order : {1, 2}, title : {<<"a">>, <<"b">>},
            description : {<<"d">>},
            difficulty : {<<"B", "e", "g", "i", "n", "n", "e", "r">>}] :
        m.order = 1 \/ m.title = <<"a">>}

\* The indexes a 200 answer of the process-text endpoint can carry: those of
\* the modules above, and one whose only module the provider's answer hands
\* over with two resources that carry a raw_content.
ClientIndexes ==
    [main_topic : {"T"}, topic_summary : {"S"},
     learning_modules :
        SeqsUpTo(ClientModules, MaxModules)
            \cup {<<[order |-> 1, title |-> <<"a">>, description |-> <<"d">>,
                     difficulty |-> <<"B", "e", "g", "i", "n", "n", "e", "r">>,
                     resources |->
                        [i \in 1..2 |->
                            [title |-> "t", url |-> "u", score |-> 1,
                             content |-> "c",
                             raw_content |-> <<"raw1", "raw2">>[i]]]]>>}]

\* Outcomes of a search call that the page can tell apart.
ClientOutcomes ==
    {o \in Outcomes :
        /\ o.kind = "ok" /\ Len(o.results) <= 1
        /\ \A i \in 1..Len(o.results) : o.results[i].url = "u1"}

\* Array.prototype.sort((a, b) => a.order - b.order): stable, in place.
InsertByOrder(sorted, m) ==
    LET k == Cardinality({j \in 1..Len(sorted) : sorted[j].order <= m.order}) IN
    SubSeq(sorted, 1, k) \o <<m>> \o SubSeq(sorted, k + 1, Len(sorted))

RECURSIVE SortByOrder(_)
SortByOrder(ms) ==
    IF ms = <<>> THEN <<>>
    ELSE InsertByOrder(SortByOrder(SubSeq(ms, 1, Len(ms) - 1)), ms[Len(ms)])

\* The render that follows setResult sorts result.learning_modules in place.
Render(index) ==
    [index EXCEPT !.learning_modules = SortByOrder(index.learning_modules)]

WithResources_NoDescription(m, rs) ==
    [f \in DOMAIN m \cup {"resources"} |->
        IF f = "resources" THEN rs ELSE IF f = "description" THEN <<>> ELSE m[f]]

\* { ...module, resources }
WithResources(m, rs) ==
    [f \in DOMAIN m \cup {"resources"} |-> IF f = "resources" THEN rs ELSE m[f]]

\* enriched_modules.find(e => e.module_title === title)?.resources || []
FoundResources(enriched, title) ==
    LET hits == {k \in 1..Len(enriched) : enriched[k].module_title = title} IN
    IF hits = {} THEN <<>>
    ELSE enriched[CHOOSE k \in hits : \A l \in hits : k <= l].resources

\* learning_modules.find(m => m.order === moduleOrder)
FirstWithOrder(modules, o) ==
    CHOOSE k \in 1..Len(modules) :
        /\ modules[k].order = o
        /\ \A l \in 1..Len(modules) : modules[l].order = o => k <= l

\* handleSendToAI, lines 290-303: every module takes the entry of its title.
MergeAll(closure, enriched) ==
    [closure EXCEPT !.learning_modules =
        [i \in 1..Len(closure.learning_modules) |->
            WithResources(closure.learning_modules[i],
                FoundResources(enriched, closure.learning_modules[i].title))]]

\* handleEnrichSingleModule, lines 338-354: modules of the module's order take
\* the entry of the module's title.
MergeOne(closure, module, enriched) ==
    [closure EXCEPT !.learning_modules =
        [i \in 1..Len(closure.learning_modules) |->
            IF closure.learning_modules[i].order = module.order
              THEN WithResources(closure.learning_modules[i],
                        FoundResources(enriched, module.title))
              ELSE closure.learning_modules[i]]]

NothingDone == [kind |-> "none"]

RemoveAt(q, k) == SubSeq(q, 1, k - 1) \o SubSeq(q, k + 1, Len(q))

ClientInit ==
    /\ result = Null
    /\ isLoading = FALSE
    /\ isEnriching = FALSE
    /\ enrichingModule = NullOrder
    /\ pending = <<>>
    /\ cActions = 0
    /\ cDone = NothingDone
    /\ isAnalyzing = FALSE
    /\ technicalAnalysisData = Null
    /\ showTechnicalAnalysisModal = FALSE
    /\ analyzingResourceKey = Null

\* handleSubmit up to its fetch (the button is disabled while isLoading).
Submit ==
    /\ ~isLoading
    /\ cActions < MaxActions
    /\ Len(pending) < MaxPending
    /\ isLoading' = TRUE
    /\ result' = Null
    /\ pending' = Append(pending, [kind |-> "submit"])
    /\ cActions' = cActions + 1
    /\ cDone' = NothingDone
    /\ UNCHANGED <<isEnriching, enrichingModule>>
    /\ UNCHANGED <<modalVars, enrichVars, textVars, cleanVars, navVars,
                   analysisVars, promptVars>>

\* handleSubmit after its fetch: a 200 answer carries an index, any other
\* answer (or a rejected fetch) leaves result as it is.
SubmitSettle ==
    /\ \E k \in 1..Len(pending) :
        /\ pending[k].kind = "submit"
        /\ pending' = RemoveAt(pending, k)
        /\ \/ \E data \in ClientIndexes :
                /\ result' = Render(data)
                /\ cDone' = [kind |-> "submit", ok |-> TRUE]
           \/ /\ UNCHANGED result
              /\ cDone' = [kind |-> "submit", ok |-> FALSE]
    /\ isLoading' = FALSE
    /\ UNCHANGED <<isEnriching, enrichingModule, cActions>>
    /\ UNCHANGED <<modalVars, enrichVars, textVars, cleanVars, navVars,
                   analysisVars, promptVars>>

\* handleSendToAI up to its fetch (button: line 815).
SendToAI ==
    /\ result # Null
    /\ ~isEnriching /\ enrichingModule = NullOrder
    /\ cActions < MaxActions
    /\ Len(pending) < MaxPending
    /\ isEnriching' = TRUE
    /\ pending' = Append(pending, [kind |-> "sendToAI", closure |-> result])
    /\ cActions' = cActions + 1
    /\ cDone' = NothingDone
    /\ UNCHANGED <<result, isLoading, enrichingModule>>
    /\ UNCHANGED <<modalVars, enrichVars, textVars, cleanVars, navVars,
                   analysisVars, promptVars>>

\* handleSendToAI after its fetch.
SendToAISettle ==
    /\ \E k \in 1..Len(pending) :
        /\ pending[k].kind = "sendToAI"
        /\ pending' = RemoveAt(pending, k)
        /\ LET closure == pending[k].closure IN
           \/ \E outs \in [1..Len(closure.learning_modules) -> ClientOutcomes] :
                LET resp == EnrichLoop(closure.learning_modules, 1, <<>>, outs) IN
                /\ cDone' = [kind |-> "sendToAI", ok |-> resp.status = 200,
                             outs |-> outs, closure |-> closure]
                /\ IF resp.status = 200
                     THEN result' = Render(MergeAll(closure, resp.enriched_modules))
                     ELSE UNCHANGED result
           \/ \* the request fails before the loop, or the fetch rejects
              /\ cDone' = [kind |-> "sendToAI", ok |-> FALSE,
                           outs |-> <<>>, closure |-> closure]
              /\ UNCHANGED result
    /\ isEnriching' = FALSE
    /\ UNCHANGED <<isLoading, enrichingModule, cActions>>
    /\ UNCHANGED <<modalVars, enrichVars, textVars, cleanVars, navVars,
                   analysisVars, promptVars>>

\* handleMenuAction("Ground", o) and handleEnrichSingleModule up to its fetch
\* (button: line 656).
Ground ==
    /\ result # Null
    /\ cActions < MaxActions
    /\ Len(pending) < MaxPending
    /\ \E p \in 1..Len(result.learning_modules) :
        LET o == result.learning_modules[p].order
            module == result.learning_modules[FirstWithOrder(result.learning_modules, o)]
        IN
        /\ ~isEnriching /\ enrichingModule # o
        /\ enrichingModule' = module.order
        /\ pending' = Append(pending,
                [kind |-> "ground", closure |-> result, module |-> module])
    /\ cActions' = cActions + 1
    /\ cDone' = NothingDone
    /\ UNCHANGED <<result, isLoading, isEnriching>>
    /\ UNCHANGED <<modalVars, enrichVars, textVars, cleanVars, navVars,
                   analysisVars, promptVars>>

GroundSettle_FlagKept ==
    /\ \E k \in 1..Len(pending) :
        /\ pending[k].kind = "ground"
        /\ pending' = RemoveAt(pending, k)
        /\ LET closure == pending[k].closure
               module == pending[k].module
           IN
           \/ \E o \in ClientOutcomes :
                LET resp == EnrichLoop(<<module>>, 1, <<>>, <<o>>) IN
                /\ cDone' = [kind |-> "ground", ok |-> resp.status = 200,
                             outs |-> <<o>>, closure |-> closure, module |-> module]
                /\ IF resp.status = 200
                     THEN result' = Render(MergeOne(closure, module, resp.enriched_modules))
                     ELSE UNCHANGED result
           \/ /\ cDone' = [kind |-> "ground", ok |-> FALSE,
                           outs |-> <<>>, closure |-> closure, module |-> module]
              /\ UNCHANGED result
    /\ enrichingModule' = IF cDone'.ok THEN NullOrder ELSE enrichingModule
    /\ UNCHANGED <<isLoading, isEnriching, cActions>>
    /\ UNCHANGED <<modalVars, enrichVars, textVars, cleanVars, navVars,
                   analysisVars, promptVars>>

\* handleEnrichSingleModule after its fetch.
GroundSettle ==
    /\ \E k \in 1..Len(pending) :
        /\ pending[k].kind = "ground"
        /\ pending' = RemoveAt(pending, k)
        /\ LET closure == pending[k].closure
               module == pending[k].module
           IN
           \/ \E o \in ClientOutcomes :
                LET resp == EnrichLoop(<<module>>, 1, <<>>, <<o>>) IN
                /\ cDone' = [kind |-> "ground", ok |-> resp.status = 200,
                             outs |-> <<o>>, closure |-> closure, module |-> module]
                /\ IF resp.status = 200
                     THEN result' = Render(MergeOne(closure, module, resp.enriched_modules))
                     ELSE UNCHANGED result
           \/ /\ cDone' = [kind |-> "ground", ok |-> FALSE,
                           outs |-> <<>>, closure |-> closure, module |-> module]
              /\ UNCHANGED result
    /\ enrichingModule' = NullOrder
    /\ UNCHANGED <<isLoading, isEnriching, cActions>>
    /\ UNCHANGED <<modalVars, enrichVars, textVars, cleanVars, navVars,
                   analysisVars, promptVars>>


\* !resource.raw_content
HasRawContent(resource) ==
    "raw_content" \in DOMAIN resource /\ resource.raw_content # ""

\* handleResourceMenuAction("Technical Analysis", order, idx), for the menu of
\* resource idx of a displayed module, up to its fetch.  The menu lies under
\* the modal's overlay, so it is used while the modal is closed.  The module
\* is looked up again by its order; the request is sent when the resource
\* found has a raw_content.
AnalyzeResource ==
    /\ result # Null
    /\ ~showTechnicalAnalysisModal
    /\ cActions < MaxActions
    /\ Len(pending) < MaxPending
    /\ \E i \in 1..Len(result.learning_modules) :
        /\ "resources" \in DOMAIN result.learning_modules[i]
        /\ \E idx \in 1..Len(result.learning_modules[i].resources) :
            LET modules == result.learning_modules
                module == modules[FirstWithOrder(modules, modules[i].order)]
                found == /\ "resources" \in DOMAIN module
                         /\ idx <= Len(module.resources)
                send == found /\ HasRawContent(module.resources[idx])
                resourceMenuKey == <<modules[i].order, idx>>
            IN /\ cDone' = [kind |-> "analysis", ok |-> send,
                            resource |-> modules[i].resources[idx]]
               /\ IF send
                    THEN /\ isAnalyzing' = TRUE
                         /\ showTechnicalAnalysisModal' = TRUE
                         /\ analyzingResourceKey' = resourceMenuKey
                         /\ technicalAnalysisData' = Null
                         /\ pending' = Append(pending,
                                [kind |-> "analysis", key |-> resourceMenuKey,
                                 raw_content |-> module.resources[idx].raw_content])
                    ELSE UNCHANGED <<modalVars, pending>>
    /\ cActions' = cActions + 1
    /\ UNCHANGED <<result, isLoading, isEnriching, enrichingModule>>
    /\ UNCHANGED <<enrichVars, textVars, cleanVars, navVars, analysisVars,
                   promptVars>>

\* handleResourceMenuAction after its fetch: a 2xx answer is stored as the
\* analysis (here: the analysis of the content the request carried), any other
\* answer or a rejected fetch stores nothing; isAnalyzing is reset in both.
AnalyzeSettle ==
    /\ \E k \in 1..Len(pending) :
        /\ pending[k].kind = "analysis"
        /\ pending' = RemoveAt(pending, k)
        /\ \E ok \in BOOLEAN :
            /\ technicalAnalysisData' =
                    IF ok THEN [kind |-> "analysis", of |-> pending[k].key]
                          ELSE technicalAnalysisData
            /\ cDone' = [kind |-> "analysisSettle", ok |-> ok,
                         key |-> pending[k].key]
    /\ isAnalyzing' = FALSE
    /\ UNCHANGED <<showTechnicalAnalysisModal, analyzingResourceKey>>
    /\ UNCHANGED <<result, isLoading, isEnriching, enrichingModule, cActions>>
    /\ UNCHANGED <<enrichVars, textVars, cleanVars, navVars, analysisVars,
                   promptVars>>

\* handleCloseModal: the close button of the modal, or Escape.
handleCloseModal ==
    /\ showTechnicalAnalysisModal
    /\ showTechnicalAnalysisModal' = FALSE
    /\ technicalAnalysisData' = Null
    /\ analyzingResourceKey' = Null
    /\ cDone' = [kind |-> "closeModal"]
    /\ UNCHANGED <<isAnalyzing, pending, cActions>>
    /\ UNCHANGED <<result, isLoading, isEnriching, enrichingModule>>
    /\ UNCHANGED <<enrichVars, textVars, cleanVars, navVars, analysisVars,
                   promptVars>>

----------------------------------------------------------------------------
(* Texts: sequences of one-character strings *)

IsSpace(c) == c \in {" ", "\n"}

StartsWith(s, p) == Len(s) >= Len(p) /\ SubSeq(s, 1, Len(p)) = p


\* String.prototype.includes
Includes(s, p) ==
    \E i \in 1..(Len(s) - Len(p) + 1) : SubSeq(s, i, i + Len(p) - 1) = p

Drop(s, n) == SubSeq(s, n + 1, Len(s))

DropLast(s, n) == SubSeq(s, 1, Len(s) - n)

\* The number of whitespace characters s begins (ends) with.
LeadingSpaces(s) ==
    CHOOSE k \in 0..Len(s) :
        /\ \A i \in 1..k : IsSpace(s[i])
        /\ k = Len(s) \/ ~IsSpace(s[k + 1])

TrailingSpaces(s) ==
    CHOOSE k \in 0..Len(s) :
        /\ \A i \in (Len(s) - k + 1)..Len(s) : IsSpace(s[i])
        /\ k = Len(s) \/ ~IsSpace(s[Len(s) - k])

TrimStart(s) == Drop(s, LeadingSpaces(s))

TrimEnd(s) == DropLast(s, TrailingSpaces(s))

\* String.prototype.trim
Trim(s) == TrimEnd(TrimStart(s))


LowerAll(s) ==
    [i \in 1..Len(s) |->
        CASE s[i] = "J" -> "j" [] s[i] = "S" -> "s"
          [] s[i] = "O" -> "o" [] s[i] = "N" -> "n"
          [] OTHER -> s[i]]

\* The backquote character (a string literal cannot hold it).
Backquote == "BACKQUOTE"

Fence == <<Backquote, Backquote, Backquote>>
JsonWord == <<"j", "s", "o", "n">>

----------------------------------------------------------------------------
(* cleanJsonResponse *)

\* Remove a fence at the start: three backquotes, an optional "json" in any
\* case, and the whitespace after them.
StripOpeningFence(s) ==
    IF ~StartsWith(s, Fence) THEN s
    ELSE LET r == Drop(s, Len(Fence))
             q == IF StartsWith(LowerAll(r), JsonWord) THEN Drop(r, Len(JsonWord)) ELSE r
         IN TrimStart(q)

\* Remove a fence at the end: three backquotes and the whitespace before them.
StripClosingFence(s) ==
    IF Len(s) >= Len(Fence) /\ SubSeq(s, Len(s) - Len(Fence) + 1, Len(s)) = Fence
      THEN TrimEnd(DropLast(s, Len(Fence))) ELSE s

\* The greedy match of an opening brace, anything, a closing brace: from the
\* first "{" to the last "}" after it; the text itself when there is none.
MatchObject(s) ==
    LET opens == {i \in 1..Len(s) : s[i] = "{"} IN
    IF opens = {} THEN s
    ELSE LET first == CHOOSE i \in opens : \A j \in opens : i <= j
             closes == {i \in 1..Len(s) : s[i] = "}" /\ i > first}
         IN IF closes = {} THEN s
            ELSE SubSeq(s, first, CHOOSE i \in closes : \A j \in closes : i >= j)

cleanJsonResponse(text) ==
    Trim(MatchObject(StripClosingFence(StripOpeningFence(Trim(text)))))

----------------------------------------------------------------------------
(* JSON values and JSON texts *)

JUndefined == [t |-> "undefined"]
JNull == [t |-> "null"]
JString(s) == [t |-> "string", v |-> s]

\* JavaScript truthiness of a value (what !x negates).
Truthy(x) ==
    /\ x.t \notin {"undefined", "null"}
    /\ ~(x.t = "string" /\ x.v = <<>>)
    /\ ~(x.t = "number" /\ x.v = 0)

\* The objects an LLM provider may return as its JSON text: each of the three
\* top-level fields may be missing or of another type than the prompt asks.
LlmObjects ==
    [t : {"object"},
     main_topic : {JUndefined, JString(<<>>), JString(<<"T">>)},
     topic_summary : {JUndefined, JString(<<"S">>)},
     learning_modules :
        {JUndefined, JString(<<"x">>)}
            \cup {[t |-> "array", v |-> a] : a \in SeqsUpTo(ClientModules, MaxModules)}]

LlmValues == LlmObjects \cup {JNull}

Quoted(s) == <<"\"">> \o s \o <<"\"">>


NullWord == <<"n", "u", "l", "l">>

RECURSIVE JoinWithCommas(_)
JoinWithCommas(parts) ==
    IF parts = <<>> THEN <<>>
    ELSE IF Len(parts) = 1 THEN parts[1]
    ELSE parts[1] \o <<",">> \o JoinWithCommas(Tail(parts))

SerializeModule(m) ==
    <<"{">> \o Quoted(<<"o", "r", "d", "e", "r">>) \o <<":", <<"0", "1", "2", "3", "4", "5", "6", "7", "8", "9">>[m.order + 1], ",">>
        \o Quoted(<<"t", "i", "t", "l", "e">>) \o <<":">> \o Quoted(m.title) \o <<",">>
        \o Quoted(<<"d", "e", "s", "c", "r", "i", "p", "t", "i", "o", "n">>) \o <<":">> \o Quoted(m.description) \o <<",">>
        \o Quoted(<<"d", "i", "f", "f", "i", "c", "u", "l", "t", "y">>) \o <<":">> \o Quoted(m.difficulty) \o <<"}">>

SerializeField(key, x) ==
    IF x.t = "undefined" THEN <<>>
    ELSE << Quoted(key) \o <<":">> \o
            (IF x.t = "string" THEN Quoted(x.v)
             ELSE <<"[">> \o JoinWithCommas([i \in 1..Len(x.v) |-> SerializeModule(x.v[i])])
                    \o <<"]">>) >>

\* JSON.stringify of a value of LlmValues.
Serialize(v) ==
    IF v.t = "null" THEN NullWord
    ELSE <<"{">> \o JoinWithCommas(SerializeField(<<"m", "a", "i", "n", "_", "t", "o", "p", "i", "c">>, v.main_topic)
                        \o SerializeField(<<"t", "o", "p", "i", "c", "_", "s", "u", "m", "m", "a", "r", "y">>, v.topic_summary)
                        \o SerializeField(<<"l", "e", "a", "r", "n", "i", "n", "g", "_", "m", "o", "d", "u", "l", "e", "s">>, v.learning_modules))
            \o <<"}">>

JsonTexts == {Serialize(v) : v \in LlmValues}

ParseError == [t |-> "SyntaxError"]

\* JSON.parse on the texts of the model: the value whose JSON text it is, or
\* a SyntaxError.
JsonValueOf == [s \in JsonTexts |-> CHOOSE v \in LlmValues : Serialize(v) = s]

JsonParse(s) == IF s \in JsonTexts THEN JsonValueOf[s] ELSE ParseError

----------------------------------------------------------------------------
(* POST /api/process-text *)

ModelGeminiFlash == <<"g", "e", "m", "i", "n", "i", "-", "2", ".", "5", "-", "f", "l", "a", "s", "h">>

allowedModels ==
    {<<"g", "e", "m", "i", "n", "i", "-", "2", ".", "5", "-", "f", "l", "a", "s", "h">>,
     <<"d", "e", "e", "p", "s", "e", "e", "k", "-", "c", "h", "a", "t">>,
     <<"d", "e", "e", "p", "s", "e", "e", "k", "-", "r", "e", "a", "s", "o", "n", "e", "r">>,
     <<"g", "p", "t", "-", "5", ".", "2">>,
     <<"g", "p", "t", "-", "5", ".", "1">>,
     <<"g", "p", "t", "-", "5">>,
     <<"g", "p", "t", "-", "5", "-", "m", "i", "n", "i">>,
     <<"g", "p", "t", "-", "5", "-", "n", "a", "n", "o">>,
     <<"g", "p", "t", "-", "5", ".", "2", "-", "c", "h", "a", "t", "-", "l", "a", "t", "e", "s", "t">>,
     <<"g", "p", "t", "-", "5", ".", "1", "-", "c", "h", "a", "t", "-", "l", "a", "t", "e", "s", "t">>,
     <<"g", "p", "t", "-", "5", "-", "c", "h", "a", "t", "-", "l", "a", "t", "e", "s", "t">>,
     <<"g", "p", "t", "-", "5", ".", "1", "-", "c", "o", "d", "e", "x", "-", "m", "a", "x">>,
     <<"g", "p", "t", "-", "5", ".", "1", "-", "c", "o", "d", "e", "x">>,
     <<"g", "p", "t", "-", "5", "-", "c", "o", "d", "e", "x">>,
     <<"g", "p", "t", "-", "5", ".", "2", "-", "p", "r", "o">>}

PrefixDeepSeek == <<"d", "e", "e", "p", "s", "e", "e", "k", "-">>


\* What the request may carry as its text.
RequestTexts ==
    {JUndefined, [t |-> "number", v |-> 5], JString(<<>>), JString(<<" ", "\n">>),
     JString(<<"h", "i">>)}

Vendors == {"Gemini", "DeepSeek", "OpenAI"}

\* The two handlers of the endpoint: "multi" chooses the vendor by the model
\* name, "openai" always calls OpenAI.
ProcessTextRequests ==
    [handler : {"multi"}, parsable : BOOLEAN, text : RequestTexts,
     model : {JUndefined, JString(<<>>), JString(<<"b", "o", "g", "u", "s">>)}
                \cup {JString(m) : m \in allowedModels},
     keys : SUBSET Vendors]
        \cup [handler : {"openai"}, parsable : BOOLEAN, text : RequestTexts,
              model : {JUndefined}, keys : SUBSET Vendors]

\* !text || typeof text !== "string" || text.trim().length === 0
TextRejected(text) ==
    \/ ~Truthy(text)
    \/ text.t # "string"
    \/ Len(Trim(text.v)) = 0

\* model || "gemini-2.5-flash"
ModelName(model) == IF Truthy(model) THEN model.v ELSE ModelGeminiFlash

\* model && !allowedModels.includes(model)
ModelRejected(model) == Truthy(model) /\ model.v \notin allowedModels

VendorOf_NoOpenAI(modelName) ==
    IF StartsWith(modelName, PrefixDeepSeek) THEN "DeepSeek" ELSE "Gemini"

\* The vendor chosen by the prefix of the model name.
VendorOf(modelName) ==
    IF StartsWith(modelName, PrefixDeepSeek) THEN "DeepSeek"
    ELSE IF StartsWith(modelName, <<"g", "p", "t", "-">>) THEN "OpenAI"
    ELSE "Gemini"

\* The vendor a request is served by.
VendorFor(req) ==
    IF req.handler = "openai" THEN "OpenAI" ELSE VendorOf(ModelName(req.model))

\* The vendor whose credential is read and handed to the call.
KeyFor(req) ==
    IF req.handler = "openai" THEN "OpenAI" ELSE VendorOf(ModelName(req.model))

\* Error messages, as far as the catch block looks into them.
MsgDeepSeekError == <<"D", "e", "e", "p", "S", "e", "e", "k", " ", "A", "P", "I", " ", "e", "r", "r", "o", "r", ":", " ">>
MsgOpenAIError == <<"O", "p", "e", "n", "A", "I", " ", "A", "P", "I", " ", "e", "r", "r", "o", "r", ":", " ">>
PatInvalidApiKey == <<"I", "n", "v", "a", "l", "i", "d", " ", "A", "P", "I", " ", "k", "e", "y">>
PatInvalidApiKeyCode == <<"i", "n", "v", "a", "l", "i", "d", "_", "a", "p", "i", "_", "k", "e", "y">>
PatApiKeyInvalid == <<"A", "P", "I", "_", "K", "E", "Y", "_", "I", "N", "V", "A", "L", "I", "D">>
PatRateLimit == <<"r", "a", "t", "e", "_", "l", "i", "m", "i", "t", "_", "e", "x", "c", "e", "e", "d", "e", "d">>
PatQuota == <<"q", "u", "o", "t", "a">>
PatResourceExhausted == <<"R", "E", "S", "O", "U", "R", "C", "E", "_", "E", "X", "H", "A", "U", "S", "T", "E", "D">>
PatInsufficientQuota == <<"i", "n", "s", "u", "f", "f", "i", "c", "i", "e", "n", "t", "_", "q", "u", "o", "t", "a">>

StatusDigits(n) ==
    CASE n = 401 -> <<"4", "0", "1">> [] n = 402 -> <<"4", "0", "2">> [] n = 429 -> <<"4", "2", "9">>
      [] n = 400 -> <<"4", "0", "0">> [] n = 500 -> <<"5", "0", "0">> [] n = 503 -> <<"5", "0", "3">>

ProviderErrorStatuses == {401, 402, 429, 500}

\* Error bodies a vendor sends along with a non-2xx status (JSON text).
ErrorBodies ==
    {<<"{", "\"", "e", "r", "r", "o", "r", "\"", ":", "\"", "x", "\"", "}">>,
     <<"{", "\"", "e", "r", "r", "o", "r", "\"", ":", "\"", "i", "n", "s", "u", "f", "f", "i", "c", "i", "e", "n", "t", "_", "q", "u", "o", "t", "a", "\"", "}">>}

\* The Error thrown by callDeepSeekAPI / callOpenAIAPI on a non-2xx status:
\* it has a message and no status property.
FetchError(vendor, status, body) ==
    [status |-> 0,
     message |-> (IF vendor = "DeepSeek" THEN MsgDeepSeekError ELSE MsgOpenAIError)
                    \o StatusDigits(status) \o <<" ", "-", " ">> \o body]


\* A TypeError or a rejected fetch: no status, a message of its own.
PlainError == [status |-> 0, message |-> <<"x">>]

\* What one call to the LLM provider can produce.
FramedSamples ==
    {Fence \o JsonWord \o <<"\n">> \o t \o <<"\n">> \o Fence : t \in JsonTexts}


ProviderOutcomes ==
    [kind : {"text"}, text : (JsonTexts \cup FramedSamples \cup {<<>>, <<"x">>})]
        \cup [kind : {"http"}, status : ProviderErrorStatuses, body : ErrorBodies]
        \cup {[kind |-> "throw"]}


\* The error the call throws for outcome o, given how the vendor is called:
\* DeepSeek and OpenAI by fetch in the "multi" handler, otherwise by an SDK.
ThrownError(req, o) ==
    IF o.kind = "throw" THEN PlainError
    ELSE IF req.handler = "multi" /\ VendorFor(req) \in {"DeepSeek", "OpenAI"}
      THEN FetchError(VendorFor(req), o.status, o.body)
      ELSE [status |-> o.status, message |-> o.body]

\* The catch block of the "multi" handler (part_002, lines 247-276).
CatchStatusMulti(error) ==
    IF \/ error.status = 401
       \/ Includes(error.message, PatInvalidApiKey)
       \/ Includes(error.message, PatInvalidApiKeyCode)
       \/ Includes(error.message, PatApiKeyInvalid)
       \/ Includes(error.message, MsgDeepSeekError \o StatusDigits(401))
       \/ Includes(error.message, MsgOpenAIError \o StatusDigits(401))
      THEN 401
    ELSE IF \/ error.status = 429
            \/ Includes(error.message, PatRateLimit)
            \/ Includes(error.message, PatQuota)
            \/ Includes(error.message, PatResourceExhausted)
            \/ Includes(error.message, MsgDeepSeekError \o StatusDigits(429))
            \/ Includes(error.message, MsgOpenAIError \o StatusDigits(429))
      THEN 429
    ELSE IF \/ error.status = 402
            \/ Includes(error.message, PatInsufficientQuota)
            \/ Includes(error.message, MsgDeepSeekError \o StatusDigits(402))
            \/ Includes(error.message, MsgOpenAIError \o StatusDigits(402))
      THEN 402
    ELSE 500

\* The catch block of the "openai" handler (route.ts, lines 154-183).
CatchStatusOpenAI(error) ==
    IF \/ error.status = 401
       \/ Includes(error.message, PatInvalidApiKey)
       \/ Includes(error.message, PatInvalidApiKeyCode)
      THEN 401
    ELSE IF \/ error.status = 429
            \/ Includes(error.message, PatRateLimit)
            \/ Includes(error.message, PatQuota)
      THEN 429
    ELSE IF error.status = 402 \/ Includes(error.message, PatInsufficientQuota)
      THEN 402
    ELSE 500

CatchStatus(req, error) ==
    IF req.handler = "multi" THEN CatchStatusMulti(error) ELSE CatchStatusOpenAI(error)

StructureRejected_TopicOnly(v) == ~Truthy(v.main_topic)

\* The structure check on the parsed value: main_topic and topic_summary
\* truthy, learning_modules an array.
StructureRejected(v) ==
    \/ ~Truthy(v.main_topic)
    \/ ~Truthy(v.topic_summary)
    \/ v.learning_modules.t # "array"

\* From the provider's text to the answer: [status, body].
AnswerForText(req, responseText) ==
    IF responseText = <<>> THEN [status |-> 500, body |-> JUndefined]
    ELSE LET learningIndex == JsonParse(cleanJsonResponse(responseText)) IN
         IF learningIndex = ParseError THEN [status |-> 500, body |-> JUndefined]
         ELSE IF learningIndex.t = "null"    \* reading .main_topic of null throws
           THEN [status |-> CatchStatus(req, PlainError), body |-> JUndefined]
         ELSE IF StructureRejected(learningIndex)
           THEN [status |-> 500, body |-> JUndefined]
         ELSE [status |-> 200, body |-> learningIndex]


TextInit ==
    /\ tPc = "idle"
    /\ tReq = [handler |-> "multi", parsable |-> FALSE, text |-> JUndefined,
               model |-> JUndefined, keys |-> {}]
    /\ tCalls = <<>>
    /\ tOutcome = NoOutcome
    /\ tStatus = 0
    /\ tBody = JUndefined

EarlyStatusMulti_NoKeyCheck(req) ==
    IF ~req.parsable THEN CatchStatusMulti(PlainError)
    ELSE IF TextRejected(req.text) THEN 400
    ELSE IF ModelRejected(req.model) THEN 400
    ELSE 0

\* The "multi" handler up to the provider call (part_002, lines 122-177):
\* the status it answers with before calling, 0 when it goes on to call.
EarlyStatusMulti(req) ==
    IF ~req.parsable THEN CatchStatusMulti(PlainError)
    ELSE IF TextRejected(req.text) THEN 400
    ELSE IF ModelRejected(req.model) THEN 400
    ELSE IF KeyFor(req) \notin req.keys THEN 500
    ELSE 0

\* The "openai" handler up to the provider call (route.ts, lines 55-94).
EarlyStatusOpenAI(req) ==
    IF "OpenAI" \notin req.keys THEN 500
    ELSE IF ~req.parsable THEN CatchStatusOpenAI(PlainError)
    ELSE IF TextRejected(req.text) THEN 400
    ELSE 0

EarlyStatus(req) ==
    IF req.handler = "multi" THEN EarlyStatusMulti(req) ELSE EarlyStatusOpenAI(req)

\* The request arrives: it is answered at once, or the provider is called.
ProcessTextReceive ==
    /\ tPc = "idle"
    /\ \E req \in ProcessTextRequests :
        /\ tReq' = req
        /\ IF EarlyStatus(req) # 0
             THEN /\ tPc' = "done"
                  /\ tStatus' = EarlyStatus(req)
                  /\ UNCHANGED tCalls
             ELSE /\ tPc' = "calling"
                  /\ tCalls' = Append(tCalls, [vendor |-> VendorFor(req), key |-> KeyFor(req)])
                  /\ UNCHANGED tStatus
    /\ UNCHANGED <<tOutcome, tBody>>
    /\ UNCHANGED <<enrichVars, clientVars, cleanVars, navVars, analysisVars,
                   promptVars>>

ProcessTextSettle_Retry ==
    /\ tPc = "calling"
    /\ \E o \in ProviderOutcomes :
        /\ tOutcome' = o
        /\ IF o.kind = "text"
             THEN LET a == AnswerForText(tReq, o.text) IN
                  tStatus' = a.status /\ tBody' = a.body /\ tPc' = "done"
                    /\ UNCHANGED tCalls
             ELSE IF Len(tCalls) < 2
             THEN /\ tCalls' = Append(tCalls, tCalls[1])
                  /\ tPc' = "calling"
                  /\ UNCHANGED <<tStatus, tBody>>
             ELSE /\ tStatus' = CatchStatus(tReq, ThrownError(tReq, o))
                  /\ tPc' = "done"
                  /\ UNCHANGED <<tBody, tCalls>>
    /\ UNCHANGED tReq
    /\ UNCHANGED <<enrichVars, clientVars, cleanVars, navVars, analysisVars,
                   promptVars>>

\* The provider call settles: its text is cleaned, parsed and checked, or its
\* error is mapped to a status by the catch block.
ProcessTextSettle ==
    /\ tPc = "calling"
    /\ \E o \in ProviderOutcomes :
        /\ tOutcome' = o
        /\ IF o.kind = "text"
             THEN LET a == AnswerForText(tReq, o.text) IN
                  tStatus' = a.status /\ tBody' = a.body
             ELSE /\ tStatus' = CatchStatus(tReq, ThrownError(tReq, o))
                  /\ UNCHANGED tBody
    /\ tPc' = "done"
    /\ UNCHANGED <<tReq, tCalls>>
    /\ UNCHANGED <<enrichVars, clientVars, cleanVars, navVars, analysisVars,
                   promptVars>>

TextNext == ProcessTextReceive \/ ProcessTextSettle

----------------------------------------------------------------------------
(* cleanJsonResponse applied to a fenced object followed by prose *)



\* JSON texts of valid learning indexes.
CleanObjects ==
    {Serialize(v) : v \in
        {w \in LlmObjects :
            /\ ~StructureRejected(w)
            /\ Len(w.learning_modules.v) <= 1}}

CleanInputs ==
    [open : {<<>>, Fence \o <<"\n">>, Fence \o JsonWord \o <<"\n">>,
             Fence \o <<"J", "S", "O", "N", " ">>},
     obj : CleanObjects,
     prose : SeqsUpTo(({" ", "x", "{", "}"}), MaxProse), close : {<<>>, <<"\n">> \o Fence}]


CleanIdle ==
    /\ cjIn = [open |-> <<>>, obj |-> <<>>, prose |-> <<>>, close |-> <<>>]
    /\ cjDone = FALSE
    /\ cjOut = <<>>


Clean ==
    /\ ~cjDone
    /\ cjOut' = cleanJsonResponse(cjIn.open \o cjIn.obj \o cjIn.prose \o cjIn.close)
    /\ cjDone' = TRUE
    /\ UNCHANGED cjIn
    /\ UNCHANGED <<enrichVars, clientVars, textVars, navVars, analysisVars,
                   promptVars>>

----------------------------------------------------------------------------
(* Access control: the middleware and its matcher, POST /api/auth, the login
   page and the app page's checkAuth *)

PathLogin == <<"/">>
PathApp == <<"/", "a", "p", "p">>

\* An absent (or empty) path or query parameter.
NoPath == <<>>
NoUrl == [path |-> NoPath, redirect |-> NoPath]
Url(path, redirect) == [path |-> path, redirect |-> redirect]


\* s begins with the pattern p, in which "." stands for any character.
PatternStartsWith(s, p) ==
    Len(s) >= Len(p) /\ \A i \in 1..Len(p) : p[i] = "." \/ s[i] = p[i]

\* config.matcher: after the leading "/", what the negative lookahead shuts
\* out: a path beginning with one of the prefixes, or ending in a dot and an
\* image extension.
matcher(path) ==
    /\ StartsWith(path, <<"/">>)
    /\ LET rest == Drop(path, 1) IN
        /\ \A p \in {<<"a", "p", "i">>,
                    <<"_", "n", "e", "x", "t", "/", "s", "t", "a", "t", "i", "c">>,
                    <<"_", "n", "e", "x", "t", "/", "i", "m", "a", "g", "e">>,
                    <<"f", "a", "v", "i", "c", "o", "n", ".", "i", "c", "o">>} : ~PatternStartsWith(rest, p)
        /\ \A e \in {<<"s", "v", "g">>, <<"p", "n", "g">>, <<"j", "p", "g">>,
                    <<"j", "p", "e", "g">>, <<"g", "i", "f">>, <<"w", "e", "b", "p">>} :
              ~(\E i \in 1..Len(rest) : rest[i] = "." /\ Drop(rest, i) = e)

NextResponseNext == [kind |-> "next"]
NextResponseRedirect(url) == [kind |-> "redirect", to |-> url]

middleware_AdmitsAll(url, cookie) == NextResponseNext

middleware(url, cookie) ==
    LET isAuthenticated == cookie = "true" IN
    IF StartsWith(url.path, PathApp)
      THEN IF ~isAuthenticated
             THEN NextResponseRedirect(Url(PathLogin, url.path))
             ELSE NextResponseNext
    ELSE IF url.path = PathLogin /\ isAuthenticated
      THEN NextResponseRedirect(
               Url(IF url.redirect # NoPath THEN url.redirect ELSE PathApp, NoPath))
    ELSE NextResponseNext

\* What the server answers a request with: the middleware's response when the
\* matcher selects the path, the route itself otherwise.
Respond(url, cookie) ==
    IF matcher(url.path) THEN middleware(url, cookie) ELSE NextResponseNext

\* The page a path is routed to.
PageAt(path) ==
    IF path = PathLogin THEN "login" ELSE IF path = PathApp THEN "app" ELSE "other"

AuthAnswer_NoConfigCheck(parsable, password, correctPassword) ==
    IF ~parsable THEN [status |-> 400, setCookie |-> FALSE]
    ELSE IF password = correctPassword THEN [status |-> 200, setCookie |-> TRUE]
    ELSE [status |-> 401, setCookie |-> FALSE]

\* POST /api/auth
AuthAnswer(parsable, password, correctPassword) ==
    IF ~parsable THEN [status |-> 400, setCookie |-> FALSE]
    ELSE IF correctPassword = "" THEN [status |-> 500, setCookie |-> FALSE]
    ELSE IF password = correctPassword THEN [status |-> 200, setCookie |-> TRUE]
    ELSE [status |-> 401, setCookie |-> FALSE]

Tabs == 1..MaxTabs

NoSubmit == [state |-> "idle"]

ClosedTab ==
    [shown |-> "none", url |-> NoUrl, req |-> NoUrl, effect |-> FALSE,
     carried |-> "none", submit |-> NoSubmit]


NavIdle ==
    /\ cookieJar = "none"
    /\ sessionFlag = {}
    /\ tabs = [t \in Tabs |-> ClosedTab]
    /\ served = 0
    /\ navLast = ([kind |-> "none"])

NavFixed == NavIdle /\ accessPassword = "secret"


\* The user enters an address in a tab: the page of the tab is unloaded and
\* the address is requested.
Navigate ==
    /\ served < MaxRequests
    /\ \E t \in Tabs,
          path \in {PathLogin, PathApp,
                    <<"/", "a", "p", "p", "/", "x", ".", "p", "n", "g">>,
                    <<"/", "a", "p", "p", "l", "e">>,
                    <<"/", "a", "p", "i", "/", "a", "u", "t", "h">>} :
        /\ tabs[t].req = NoUrl
        /\ tabs' = [tabs EXCEPT ![t] = [ClosedTab EXCEPT !.req = Url(path, NoPath)]]
    /\ UNCHANGED <<cookieJar, sessionFlag, accessPassword, served, navLast>>
    /\ UNCHANGED <<enrichVars, clientVars, textVars, cleanVars, analysisVars,
                   promptVars>>

\* The server answers the request of a tab; the browser follows a redirect
\* with a new request, or displays the page.  A request that is under way is
\* always answered: served counts the answers up to MaxRequests, after which
\* no new address is entered.
Serve ==
    /\ \E t \in Tabs :
        /\ tabs[t].req # NoUrl
        /\ LET url == tabs[t].req
               response == Respond(url, cookieJar)
           IN /\ tabs' = [tabs EXCEPT ![t] =
                    IF response.kind = "redirect"
                      THEN [@ EXCEPT !.req = response.to]
                      ELSE [shown |-> PageAt(url.path), url |-> url, req |-> NoUrl,
                            effect |-> PageAt(url.path) = "app",
                            carried |-> cookieJar, submit |-> NoSubmit]]
              /\ navLast' = [kind |-> "request", tab |-> t, url |-> url,
                             cookie |-> cookieJar, response |-> response]
    /\ served' = IF served < MaxRequests THEN served + 1 ELSE served
    /\ UNCHANGED <<cookieJar, sessionFlag, accessPassword>>
    /\ UNCHANGED <<enrichVars, clientVars, textVars, cleanVars, analysisVars,
                   promptVars>>

\* The effect of the app page after it is displayed.
checkAuth ==
    /\ \E t \in Tabs :
        /\ tabs[t].shown = "app"
        /\ tabs[t].effect
        /\ LET isAuth == t \in sessionFlag IN
           /\ tabs' = [tabs EXCEPT ![t].effect = FALSE,
                                   ![t].req = IF ~isAuth THEN Url(PathLogin, NoPath) ELSE @]
           /\ navLast' = [kind |-> "checkAuth", tab |-> t,
                          carried |-> tabs[t].carried, pushed |-> ~isAuth]
    /\ UNCHANGED <<cookieJar, sessionFlag, accessPassword, served>>
    /\ UNCHANGED <<enrichVars, clientVars, textVars, cleanVars, analysisVars,
                   promptVars>>

\* The login form is submitted: the password is posted.
handleSubmit ==
    /\ \E t \in Tabs, password \in {"", "secret", "wrong"} :
        /\ tabs[t].shown = "login"
        /\ tabs[t].req = NoUrl
        /\ tabs[t].submit = NoSubmit
        /\ tabs' = [tabs EXCEPT ![t].submit = [state |-> "sent", password |-> password]]
    /\ UNCHANGED <<cookieJar, sessionFlag, accessPassword, served, navLast>>
    /\ UNCHANGED <<enrichVars, clientVars, textVars, cleanVars, analysisVars,
                   promptVars>>

\* The auth endpoint answers a request: the password posted by the login form
\* of a tab, or a request sent to the endpoint by other means, whose body may
\* not parse.  A body without a password gives undefined, which like "wrong"
\* equals no configured password.
AuthPOST ==
    /\ \/ \E t \in Tabs :
            /\ tabs[t].submit.state = "sent"
            /\ LET answer == AuthAnswer(TRUE, tabs[t].submit.password, accessPassword) IN
               /\ cookieJar' = IF answer.setCookie THEN "true" ELSE cookieJar
               /\ tabs' = [tabs EXCEPT ![t].submit =
                              [state |-> "answered", status |-> answer.status]]
               /\ navLast' = [kind |-> "auth", tab |-> t, parsable |-> TRUE,
                              password |-> tabs[t].submit.password,
                              status |-> answer.status,
                              setCookie |-> answer.setCookie, cookie |-> cookieJar']
            /\ UNCHANGED served
       \/ /\ served < MaxRequests
          /\ \E parsable \in BOOLEAN, password \in {"", "secret", "wrong"} :
                LET answer == AuthAnswer(parsable, password, accessPassword) IN
                /\ cookieJar' = IF answer.setCookie THEN "true" ELSE cookieJar
                /\ navLast' = [kind |-> "auth", tab |-> 0, parsable |-> parsable,
                               password |-> password, status |-> answer.status,
                               setCookie |-> answer.setCookie, cookie |-> cookieJar']
          /\ served' = served + 1
          /\ UNCHANGED tabs
    /\ UNCHANGED <<sessionFlag, accessPassword>>
    /\ UNCHANGED <<enrichVars, clientVars, textVars, cleanVars, analysisVars,
                   promptVars>>

\* The login form receives the answer.
handleSubmitSettle ==
    /\ \E t \in Tabs :
        /\ tabs[t].submit.state = "answered"
        /\ IF tabs[t].submit.status = 200
             THEN /\ sessionFlag' = sessionFlag \cup {t}
                  /\ tabs' = [tabs EXCEPT
                        ![t].submit = NoSubmit,
                        ![t].req = Url(IF tabs[t].url.redirect # NoPath
                                         THEN tabs[t].url.redirect ELSE PathApp, NoPath)]
             ELSE /\ tabs' = [tabs EXCEPT ![t].submit = NoSubmit]
                  /\ UNCHANGED sessionFlag
    /\ UNCHANGED <<cookieJar, accessPassword, served, navLast>>
    /\ UNCHANGED <<enrichVars, clientVars, textVars, cleanVars, analysisVars,
                   promptVars>>

\* The cookie reaches its maxAge.
CookieExpires ==
    /\ cookieJar = "true"
    /\ cookieJar' = "none"
    /\ UNCHANGED <<sessionFlag, tabs, accessPassword, served, navLast>>
    /\ UNCHANGED <<enrichVars, clientVars, textVars, cleanVars, analysisVars,
                   promptVars>>

NavNext ==
    \/ Navigate \/ Serve \/ checkAuth
    \/ handleSubmit \/ AuthPOST \/ handleSubmitSettle
    \/ CookieExpires

----------------------------------------------------------------------------
(* POST /api/technical-analysis *)

analysisAllowedModels ==
    {ModelGeminiFlash, <<"d", "e", "e", "p", "s", "e", "e", "k", "-", "c", "h", "a", "t">>, <<"d", "e", "e", "p", "s", "e", "e", "k", "-", "r", "e", "a", "s", "o", "n", "e", "r">>}


SectionKeys ==
    <<<<"s", "e", "c", "t", "i", "o", "n", "_", "A", "_", "t", "e", "c", "h", "n", "i", "c", "a", "l", "_", "e", "x", "p", "l", "a", "n", "a", "t", "i", "o", "n">>,
      <<"s", "e", "c", "t", "i", "o", "n", "_", "B", "_", "n", "a", "r", "r", "a", "t", "i", "v", "e", "_", "e", "x", "p", "l", "a", "n", "a", "t", "i", "o", "n">>,
      <<"s", "e", "c", "t", "i", "o", "n", "_", "C", "_", "i", "m", "p", "l", "e", "m", "e", "n", "t", "a", "t", "i", "o", "n", "_", "g", "u", "i", "d", "e">>,
      <<"s", "e", "c", "t", "i", "o", "n", "_", "D", "_", "q", "u", "o", "t", "e", "_", "m", "i", "n", "i", "n", "g">>,
      <<"s", "e", "c", "t", "i", "o", "n", "_", "E", "_", "b", "l", "i", "n", "d", "_", "s", "p", "o", "t", "s">>>>

Sections == 1..Len(SectionKeys)



AnalysisValues ==
    [t : {"object"},
     response_structure :
        {JUndefined} \cup [t : {"object"}, sections : SUBSET Sections]]
        \cup {JNull}

RECURSIVE SerializeSections(_, _)
SerializeSections(present, k) ==
    IF k > Len(SectionKeys) THEN <<>>
    ELSE (IF k \in present THEN <<Quoted(SectionKeys[k]) \o <<":", "{", "}">>>> ELSE <<>>)
            \o SerializeSections(present, k + 1)

\* JSON.stringify of a value of AnalysisValues.
SerializeAnalysis(v) ==
    IF v.t = "null" THEN NullWord
    ELSE IF v.response_structure.t = "undefined" THEN <<"{", "}">>
    ELSE <<"{">> \o Quoted(<<"r", "e", "s", "p", "o", "n", "s", "e", "_", "s", "t", "r", "u", "c", "t", "u", "r", "e">>) \o <<":", "{">>
            \o JoinWithCommas(SerializeSections(v.response_structure.sections, 1))
            \o <<"}", "}">>

AnalysisTexts == {SerializeAnalysis(v) : v \in AnalysisValues}

\* JSON.parse on the texts of the model.
AnalysisValueOf ==
    [s \in AnalysisTexts |-> CHOOSE v \in AnalysisValues : SerializeAnalysis(v) = s]

AnalysisParse(s) == IF s \in AnalysisTexts THEN AnalysisValueOf[s] ELSE ParseError


AnalysisRequests ==
    [parsable : BOOLEAN, raw_content : RequestTexts, 
     model : {JUndefined, JString(<<>>), JString(<<"b", "o", "g", "u", "s">>)}
                \cup {JString(m) : m \in analysisAllowedModels},
     keys : SUBSET {"Gemini", "DeepSeek"}]

\* model && !allowedModels.includes(model)
AnalysisModelRejected(model) == Truthy(model) /\ model.v \notin analysisAllowedModels

AnalysisVendor(req) ==
    IF StartsWith(ModelName(req.model), PrefixDeepSeek) THEN "DeepSeek" ELSE "Gemini"

\* The catch block (lines 232-261).
AnalysisCatchStatus(error) ==
    IF \/ error.status = 401
       \/ Includes(error.message, PatInvalidApiKey)
       \/ Includes(error.message, PatInvalidApiKeyCode)
       \/ Includes(error.message, PatApiKeyInvalid)
       \/ Includes(error.message, MsgDeepSeekError \o StatusDigits(401))
      THEN 401
    ELSE IF \/ error.status = 429
            \/ Includes(error.message, PatRateLimit)
            \/ Includes(error.message, PatQuota)
            \/ Includes(error.message, PatResourceExhausted)
            \/ Includes(error.message, MsgDeepSeekError \o StatusDigits(429))
      THEN 429
    ELSE IF \/ error.status = 402
            \/ Includes(error.message, PatInsufficientQuota)
            \/ Includes(error.message, MsgDeepSeekError \o StatusDigits(402))
      THEN 402
    ELSE 500

\* The handler up to the provider call (lines 129-164): the status it answers
\* with before calling, 0 when it goes on to call.
AnalysisEarlyStatus(req) ==
    IF ~req.parsable THEN AnalysisCatchStatus(PlainError)
    ELSE IF TextRejected(req.raw_content) THEN 400
    ELSE IF AnalysisModelRejected(req.model) THEN 400
    ELSE IF AnalysisVendor(req) \notin req.keys THEN 500
    ELSE 0

\* The error the call throws for outcome o: DeepSeek is called by fetch,
\* Gemini by its SDK.
AnalysisThrown(req, o) ==
    IF o.kind = "throw" THEN PlainError
    ELSE IF AnalysisVendor(req) = "DeepSeek"
      THEN FetchError("DeepSeek", o.status, o.body)
      ELSE [status |-> o.status, message |-> o.body]


\* From the provider's text to the answer: [status, body].
AnalysisAnswer(responseText) ==
    IF responseText = <<>> THEN [status |-> 500, body |-> JUndefined]
    ELSE LET analysisResult == AnalysisParse(cleanJsonResponse(responseText)) IN
         IF analysisResult = ParseError THEN [status |-> 500, body |-> JUndefined]
         ELSE IF analysisResult.t = "null"   \* reading a property of null throws
           THEN [status |-> AnalysisCatchStatus(PlainError), body |-> JUndefined]
         ELSE IF \/ ~Truthy(analysisResult.response_structure)
                 \/ \E k \in Sections :
                        k \notin analysisResult.response_structure.sections
           THEN [status |-> 500, body |-> JUndefined]
         ELSE [status |-> 200, body |-> analysisResult]


AnalysisOutcomes ==
    [kind : {"text"}, text : AnalysisTexts
                \cup {Fence \o JsonWord \o <<"\n">> \o t \o <<"\n">> \o Fence :
                        t \in AnalysisTexts}
                \cup {<<>>, <<"x">>}]
        \cup [kind : {"http"}, status : ProviderErrorStatuses, body : ErrorBodies]
        \cup {[kind |-> "throw"]}

AnalysisInit ==
    /\ aPc = "idle"
    /\ aReq = [parsable |-> FALSE, raw_content |-> JUndefined,
               model |-> JUndefined, keys |-> {}]
    /\ aCalls = <<>>
    /\ aOutcome = NoOutcome
    /\ aStatus = 0
    /\ aBody = JUndefined

\* The request arrives: it is answered at once, or the provider is called.
AnalysisReceive ==
    /\ aPc = "idle"
    /\ \E req \in AnalysisRequests :
        /\ aReq' = req
        /\ IF AnalysisEarlyStatus(req) # 0
             THEN /\ aPc' = "done"
                  /\ aStatus' = AnalysisEarlyStatus(req)
                  /\ UNCHANGED aCalls
             ELSE /\ aPc' = "calling"
                  /\ aCalls' = Append(aCalls, AnalysisVendor(req))
                  /\ UNCHANGED aStatus
    /\ UNCHANGED <<aOutcome, aBody>>
    /\ UNCHANGED <<enrichVars, clientVars, textVars, cleanVars, navVars,
                   promptVars>>

\* The provider call settles.
AnalysisSettle ==
    /\ aPc = "calling"
    /\ \E o \in AnalysisOutcomes :
        /\ aOutcome' = o
        /\ IF o.kind = "text"
             THEN LET a == AnalysisAnswer(o.text) IN
                  aStatus' = a.status /\ aBody' = a.body
             ELSE /\ aStatus' = AnalysisCatchStatus(AnalysisThrown(aReq, o))
                  /\ UNCHANGED aBody
    /\ aPc' = "done"
    /\ UNCHANGED <<aReq, aCalls>>
    /\ UNCHANGED <<enrichVars, clientVars, textVars, cleanVars, navVars,
                   promptVars>>

AnalysisNext == AnalysisReceive \/ AnalysisSettle

----------------------------------------------------------------------------
(* The prompt sent to the provider *)

MaxText == 3        \* characters of a text put into a prompt

\* String.prototype.replace(pattern, replacement) with a string pattern: the
\* first occurrence of the pattern is replaced, and in the replacement "$$"
\* stands for "$", "$&" for the matched text, "$" and a backquote for what
\* precedes the match, "$'" for what follows it; any other "$" stands for
\* itself (a string pattern has no captures).
replace(str, pattern, replacement) ==
    LET at == {i \in 1..(Len(str) - Len(pattern) + 1) :
                    SubSeq(str, i, i + Len(pattern) - 1) = pattern}
        position == CHOOSE i \in at : \A j \in at : i <= j
        before == SubSeq(str, 1, position - 1)
        after == SubSeq(str, position + Len(pattern), Len(str))
        RECURSIVE GetSubstitution(_)
        GetSubstitution(r) ==
            IF r = <<>> THEN <<>>
            ELSE IF r[1] = "$" /\ Len(r) >= 2 /\ r[2] \in {"$", "&", Backquote, "'"}
              THEN (CASE r[2] = "$" -> <<"$">>
                      [] r[2] = "&" -> pattern
                      [] r[2] = Backquote -> before
                      [] r[2] = "'" -> after)
                        \o GetSubstitution(SubSeq(r, 3, Len(r)))
            ELSE <<r[1]>> \o GetSubstitution(SubSeq(r, 2, Len(r)))
    IN IF at = {} THEN str
       ELSE before \o GetSubstitution(replacement) \o after

\* The template of an endpoint, by the text before its placeholder (abridged
\* to its last line), the placeholder and the text after it.
PromptTemplate(endpoint) ==
    IF endpoint = "process-text"
      THEN [prefix |-> <<"\"", "\"", "\"", "\n">>,
            placeholder |-> <<"{", "{", "T", "E", "X", "T", "_", "I", "N", "P", "U", "T", "}", "}">>,
            suffix |-> <<"\n", "\"", "\"", "\"">>]
      ELSE [prefix |-> <<"T", "E", "X", "T", " ", "T", "O", " ", "A", "N", "A", "L", "Y", "Z", "E", ":", "\n">>,
            placeholder |-> <<"{", "{", "C", "O", "N", "T", "E", "N", "T", "}", "}">>,
            suffix |-> <<"\n", "\n", "R", "e", "s", "p", "o", "n", "d">>]

\* No prompt is being composed.
PromptIdle ==
    /\ pIn = [endpoint |-> "process-text", text |-> <<"x">>]
    /\ pDone = FALSE
    /\ pOut = <<>>

\* SYSTEM_PROMPT_TEMPLATE.replace("{{TEXT_INPUT}}", text) and
\* TECHNICAL_ANALYSIS_PROMPT.replace("{{CONTENT}}", raw_content).
BuildPrompt ==
    /\ ~pDone
    /\ pDone' = TRUE
    /\ LET t == PromptTemplate(pIn.endpoint) IN
        pOut' = replace(t.prefix \o t.placeholder \o t.suffix, t.placeholder, pIn.text)
    /\ UNCHANGED pIn
    /\ UNCHANGED <<enrichVars, clientVars, textVars, cleanVars, navVars,
                   analysisVars>>

----------------------------------------------------------------------------
(* Specifications: the page (Spec), and each endpoint and function alone *)

Init ==
    /\ EnrichInit /\ ClientInit /\ TextInit /\ CleanIdle /\ NavFixed /\ AnalysisInit
    /\ PromptIdle

Next ==
    \/ Submit \/ SubmitSettle
    \/ SendToAI \/ SendToAISettle
    \/ Ground \/ GroundSettle
    \/ AnalyzeResource
    \/ AnalyzeSettle
    \/ handleCloseModal

Spec == Init /\ [][Next]_vars

SpecEnrich == Init /\ [][EnrichNext]_vars

SpecText == Init /\ [][TextNext]_vars

InitClean == EnrichInit /\ ClientInit /\ TextInit /\ NavFixed /\ AnalysisInit
            /\ PromptIdle
            /\ cjIn \in CleanInputs /\ cjDone = FALSE /\ cjOut = <<>>

SpecClean == InitClean /\ [][Clean]_vars

InitNav == EnrichInit /\ ClientInit /\ TextInit /\ CleanIdle /\ AnalysisInit
            /\ PromptIdle
            /\ NavIdle /\ accessPassword \in {"", "secret"}   \* "": ACCESS_PASSWORD not set

SpecNav == InitNav /\ [][NavNext]_vars

\* Navigations left to themselves: every tab has requested "/" or "/app",
\* with or without a redirect parameter, under any cookie and any
\* sessionStorage flags; the server and the page's effect then run, and the
\* user does nothing.  A pending request is answered and a pending effect
\* runs, hence the weak fairness.
InitSettle ==
    /\ EnrichInit /\ ClientInit /\ TextInit /\ CleanIdle /\ AnalysisInit
    /\ PromptIdle
    /\ cookieJar \in {"none", "true"}
    /\ sessionFlag \in SUBSET Tabs
    /\ tabs \in [Tabs -> {[ClosedTab EXCEPT !.req = Url(path, redirect)] :
                              path \in {PathLogin, PathApp},
                              redirect \in {NoPath, PathLogin, PathApp}}]
    /\ accessPassword = "secret"
    /\ served = 0
    /\ navLast = ([kind |-> "none"])

SpecSettle ==
    /\ InitSettle /\ [][Serve \/ checkAuth]_vars
    /\ WF_vars(Serve) /\ WF_vars(checkAuth)

\* The texts are those the endpoints let through: not empty after trim().
InitPrompt ==
    /\ EnrichInit /\ ClientInit /\ TextInit /\ CleanIdle /\ NavFixed /\ AnalysisInit
    /\ pIn \in [endpoint : {"process-text", "technical-analysis"},
                text : {t \in SeqsUpTo({"x", "$", "&", "'", Backquote}, MaxText) :
                            t # <<>>}
                       \cup {<<"{", "{", "T", "E", "X", "T", "_", "I", "N", "P", "U", "T", "}", "}">>}]
    /\ pDone = FALSE
    /\ pOut = <<>>

SpecPrompt == InitPrompt /\ [][BuildPrompt]_vars


\* The three endpoints together, serving one request.  The request carries
\* the browser's cookie; it reaches its route when the server's answer for
\* the route's path is to go on.
ServerNext ==
    \/ /\ tPc = "idle" /\ aPc = "idle"
       /\ Respond(Url(<<"/", "a", "p", "i", "/", "e", "n", "r", "i", "c", "h", "-", "m", "o", "d", "u", "l", "e", "s">>,
                      NoPath), cookieJar) = NextResponseNext
       /\ EnrichNext
    \/ /\ ePc = "idle" /\ aPc = "idle"
       /\ Respond(Url(<<"/", "a", "p", "i", "/", "p", "r", "o", "c", "e", "s", "s", "-", "t", "e", "x", "t">>,
                      NoPath), cookieJar) = NextResponseNext
       /\ TextNext
    \/ /\ ePc = "idle" /\ tPc = "idle"
       /\ Respond(Url(<<"/", "a", "p", "i", "/", "t", "e", "c", "h", "n", "i", "c", "a", "l", "-", "a", "n", "a", "l", "y", "s", "i", "s">>,
                      NoPath), cookieJar) = NextResponseNext
       /\ AnalysisNext

SpecServer == Init /\ [][ServerNext]_vars

\* One request to an endpoint, or one session on the app page.
SystemNext ==
    \/ (cActions = 0 /\ ServerNext)
    \/ (ePc = "idle" /\ tPc = "idle" /\ aPc = "idle" /\ Next)

SpecSystem == Init /\ [][SystemNext]_vars

----------------------------------------------------------------------------
(* Claims about the enrich-modules endpoint *)

\* A request that passes the endpoint's own checks: the credential is set,
\* the body is an index, and every module of it carries a title.
ValidEnrichRequest ==
    /\ eReq.key
    /\ eReq.body.kind = "index"
    /\ \A i \in 1..Len(eReq.body.learning_modules) :
            HasTitle(eReq.body.learning_modules[i])

CriticalStatus(o) == o.kind = "http" /\ o.status \in {401, 429}

ProviderFailure(o) == o.kind \in {"http", "throw", "badjson"}

\* C1 (as stated): whatever the search provider's failures are, a valid
\* request is never aborted: it ends with status 200 and one entry per module.
C1_NeverAborted ==
    (ValidEnrichRequest /\ ePc = "done") =>
        /\ eStatus = 200
        /\ Len(enrichedModules) = Len(eReq.body.learning_modules)

\* C1 (amended): a provider failure other than HTTP 401 or 429 gives the
\* module an empty resource list and the loop goes on to the next module; a
\* 401 or 429 ends the request at once with that status, and these are the
\* only error statuses a valid request is answered with.
C1_FailureIsolatedUnlessCritical ==
    ValidEnrichRequest =>
        /\ (ePc = "done" => eStatus \in {200, 401, 429})
        /\ (ePc = "done" /\ eStatus # 200 =>
                CriticalStatus(eTavily) /\ eTavily.status = eStatus)
        /\ (CriticalStatus(eTavily) => ePc = "done" /\ eStatus = eTavily.status)
        /\ (ProviderFailure(eTavily) /\ ~CriticalStatus(eTavily) =>
                /\ ePc \in {"loop", "done"}
                /\ Len(enrichedModules) = eI - 1
                /\ enrichedModules[eI - 1] =
                        EmptyEntry(eReq.body.learning_modules[eI - 1])
                /\ (ePc = "done" => eStatus = 200))

\* A two-module request whose second search failed ends with 200, the first
\* module keeping its resources.
C1_Witness ==
    /\ ValidEnrichRequest
    /\ ePc = "done" /\ eStatus = 200
    /\ Len(eReq.body.learning_modules) = 2
    /\ eTavily.kind = "throw"
    /\ enrichedModules[1].resources # <<>>
    /\ enrichedModules[2].resources = <<>>

\* C2: a 200 answer has exactly one entry per input module, in input order,
\* each carrying the title of the module at the same position.
C2_OneEntryPerModuleInOrder ==
    (ePc = "done" /\ eStatus = 200) =>
        /\ Len(enrichedModules) = Len(eReq.body.learning_modules)
        /\ \A i \in 1..Len(enrichedModules) :
                enrichedModules[i].module_title = eReq.body.learning_modules[i].title

\* A 200 answer for two modules of different titles, one search of which
\* failed and the other returned results.
C2_Witness ==
    /\ ePc = "done" /\ eStatus = 200
    /\ Len(eReq.body.learning_modules) = 2
    /\ eReq.body.learning_modules[1].title # eReq.body.learning_modules[2].title
    /\ enrichedModules[1].resources = <<>>
    /\ enrichedModules[2].resources # <<>>
    /\ eTavily.kind = "ok"

\* C3: the query of every search call has at most 400 characters, and is
\* the beginning of the module's title.
C3_QueryWithinCap ==
    ePc = "await" =>
        /\ Len(eQuery) <= QueryCap
        /\ LET title == eReq.body.learning_modules[eI].title IN
            /\ Len(eQuery) <= Len(title)
            /\ eQuery = SubSeq(title, 1, Len(eQuery))

\* A search call is in flight for a title longer than the cap.
C3_Witness ==
    /\ ePc = "await"
    /\ Len(eReq.body.learning_modules[eI].title) > QueryCap
    /\ Len(eQuery) = QueryKeep

----------------------------------------------------------------------------
(* Claims about enrichment on the app page *)

\* The resources the endpoint attaches for a search call that ended with o.
Returned(o) == IF o.kind = "ok" THEN MapResults(o.results) ELSE <<>>

ZeroResults(o) == o.kind = "ok" /\ o.results = <<>>

\* C4: after a whole-index enrichment in which the search for module m
\* returned zero results, module m has an empty resource list and every other
\* module has exactly the resources returned for it.
C4_ZeroResultsIsolated ==
    (cDone.kind = "sendToAI" /\ cDone.ok) =>
        \A m \in 1..Len(cDone.outs) :
            ZeroResults(cDone.outs[m]) =>
                /\ result.learning_modules[m].resources = <<>>
                /\ \A j \in 1..Len(cDone.outs) :
                        j # m => result.learning_modules[j].resources
                                    = Returned(cDone.outs[j])

\* C5: a completed single-module enrichment for module m leaves every other
\* module of the index as it was when the action was started.
C5_GroundLeavesOthers ==
    (cDone.kind = "ground" /\ cDone.ok) =>
        LET before == cDone.closure.learning_modules
            m == FirstWithOrder(before, cDone.module.order)
        IN \A j \in 1..Len(before) :
                j # m => result.learning_modules[j] = before[j]

----------------------------------------------------------------------------
(* Claims about the process-text endpoint *)

DistinctOrders(modules) ==
    \A i, j \in 1..Len(modules) : i # j => modules[i].order # modules[j].order

\* C6: every 200 answer of the process-text endpoint is a learning index with
\* at least one module, pairwise distinct module orders and a non-empty
\* main_topic, whatever JSON text the provider returned.
C6_AnswerIsWellFormedIndex ==
    (tPc = "done" /\ tStatus = 200) =>
        /\ tBody.main_topic.t = "string"
        /\ tBody.main_topic.v # <<>>
        /\ tBody.learning_modules.t = "array"
        /\ Len(tBody.learning_modules.v) >= 1
        /\ DistinctOrders(tBody.learning_modules.v)

\* C10: a request whose text is absent, not a string, empty or only white
\* space is answered with status 400 and no provider is called, whatever
\* credentials the server holds.
C10_EmptyTextRejected ==
    (tPc # "idle" /\ tReq.parsable /\ TextRejected(tReq.text)) =>
        /\ tPc = "done"
        /\ tStatus = 400
        /\ tCalls = <<>>

----------------------------------------------------------------------------
(* Claims about cleanJsonResponse *)

\* C7: for a raw text made of an optional opening fence, one valid JSON
\* object, trailing prose (which may contain braces) and an optional closing
\* fence, cleanJsonResponse returns exactly the object, and parsing the result
\* yields the value of the object alone.
C7_CleanRecoversObject ==
    cjDone =>
        /\ cjOut = cjIn.obj
        /\ JsonParse(cjOut) # ParseError
        /\ JsonParse(cjOut) = JsonParse(cjIn.obj)

----------------------------------------------------------------------------
(* Claims about access control *)

\* A request for a path under /app that does not carry authenticated=true.
UnauthenticatedAppRequest ==
    /\ navLast.kind = "request"
    /\ StartsWith(navLast.url.path, PathApp)
    /\ navLast.cookie # "true"

RedirectedToLogin ==
    navLast.response = NextResponseRedirect(Url(PathLogin, navLast.url.path))

\* The app page is only displayed by a request that carried the cookie.
AppPageNeedsCookie ==
    \A t \in Tabs : tabs[t].shown = "app" => tabs[t].carried = "true"

\* C8 (as stated): every request for a path that starts with /app and does
\* not carry the cookie authenticated=true is answered with a redirect to "/"
\* that carries the requested path in the redirect parameter, and no such
\* request is let through to the page.
C8_AppRequestRedirected ==
    /\ AppPageNeedsCookie
    /\ UnauthenticatedAppRequest => RedirectedToLogin

\* C8 (amended): the same for the requests the matcher hands to the
\* middleware, that is, the paths under /app that do not end in a dot and an
\* image extension; the others are answered by the route without a redirect.
C8_MatchedAppRequestRedirected ==
    /\ AppPageNeedsCookie
    /\ UnauthenticatedAppRequest =>
          IF matcher(navLast.url.path)
            THEN RedirectedToLogin
            ELSE navLast.response = NextResponseNext

C8_Witness ==
    /\ UnauthenticatedAppRequest
    /\ matcher(navLast.url.path)
    /\ navLast.url.path # PathApp
    /\ RedirectedToLogin

\* C9: a POST to the auth endpoint with the configured password sets the
\* cookie authenticated=true; every later request to /app that carries the
\* cookie is admitted by the middleware, and the app page it displays stays
\* displayed: checkAuth does not send the tab back to the login page.
C9_CookieGrantsAccess ==
    /\ (navLast.kind = "auth" /\ accessPassword # ""
            /\ navLast.password = accessPassword)
          => (navLast.status = 200 /\ navLast.cookie = "true")
    /\ (navLast.kind = "request" /\ navLast.url.path = PathApp
            /\ navLast.cookie = "true")
          => navLast.response = NextResponseNext
    /\ (navLast.kind = "checkAuth" /\ navLast.carried = "true")
          => ~navLast.pushed

----------------------------------------------------------------------------
(* Claims about the three endpoints *)

\* A request that passes the endpoint's validation, so that a provider is
\* chosen for it.
TextValid(req) ==
    /\ req.parsable
    /\ ~TextRejected(req.text)
    /\ req.handler = "multi" => ~ModelRejected(req.model)

AnalysisValid(req) ==
    /\ req.parsable
    /\ ~TextRejected(req.raw_content)
    /\ ~AnalysisModelRejected(req.model)

\* C11: in each endpoint, when the credential of the provider the request
\* would use is not set, the answer is status 500 (the configuration error)
\* and no call to an LLM or search provider is made for the request.
C11_MissingCredentialIs500 ==
    /\ (tPc # "idle" /\ TextValid(tReq) /\ VendorFor(tReq) \notin tReq.keys)
          => (tPc = "done" /\ tStatus = 500 /\ tCalls = <<>>)
    /\ (aPc # "idle" /\ AnalysisValid(aReq) /\ AnalysisVendor(aReq) \notin aReq.keys)
          => (aPc = "done" /\ aStatus = 500 /\ aCalls = <<>>)
    /\ (ePc # "idle" /\ ~eReq.key)
          => (ePc = "done" /\ eStatus = 500 /\ eSent = <<>>)

C11_Witness ==
    /\ tPc = "done"
    /\ tReq.handler = "multi"
    /\ TextValid(tReq)
    /\ VendorFor(tReq) = "DeepSeek"
    /\ tReq.keys = {"Gemini", "OpenAI"}
    /\ tStatus = 500

PropagatedStatuses == {401, 402, 429}

\* C12: when the provider answers the process-text or technical-analysis
\* call with HTTP status 401, 402 or 429, the endpoint answers with that same
\* status, whatever error body the provider sent along.
C12_ProviderStatusPropagated ==
    /\ (tPc = "done" /\ tOutcome.kind = "http"
            /\ tOutcome.status \in PropagatedStatuses)
          => tStatus = tOutcome.status
    /\ (aPc = "done" /\ aOutcome.kind = "http"
            /\ aOutcome.status \in PropagatedStatuses)
          => aStatus = aOutcome.status

\* A parsed value that lacks a required top-level field.
IndexFieldMissing(v) ==
    \/ v.t = "null"
    \/ v.main_topic.t = "undefined"
    \/ v.topic_summary.t = "undefined"
    \/ v.learning_modules.t # "array"

AnalysisFieldMissing(v) ==
    \/ v.t = "null"
    \/ v.response_structure.t = "undefined"
    \/ \E k \in Sections : k \notin v.response_structure.sections

\* C13: the process-text and technical-analysis endpoints answer 200 only
\* when the normalized provider text parses as JSON and every required
\* top-level field is present, and the body is then the parsed value; an
\* empty, unparsable or field-missing provider text always yields 500.
C13_OnlyWellFormedIs200 ==
    /\ (tPc = "done" /\ tOutcome.kind = "text") =>
         LET v == JsonParse(cleanJsonResponse(tOutcome.text)) IN
         /\ tStatus = 200 => (v # ParseError /\ ~IndexFieldMissing(v) /\ tBody = v)
         /\ (tOutcome.text = <<>> \/ v = ParseError \/ IndexFieldMissing(v))
               => tStatus = 500
    /\ (aPc = "done" /\ aOutcome.kind = "text") =>
         LET v == AnalysisParse(cleanJsonResponse(aOutcome.text)) IN
         /\ aStatus = 200 => (v # ParseError /\ ~AnalysisFieldMissing(v) /\ aBody = v)
         /\ (aOutcome.text = <<>> \/ v = ParseError \/ AnalysisFieldMissing(v))
               => aStatus = 500

C13_Witness ==
    /\ tPc = "done"
    /\ tOutcome.kind = "text"
    /\ tOutcome.text \in FramedSamples
    /\ tStatus = 500
    /\ JsonParse(cleanJsonResponse(tOutcome.text)) # ParseError
    /\ JsonParse(cleanJsonResponse(tOutcome.text)).t = "object"
    /\ JsonParse(cleanJsonResponse(tOutcome.text)).main_topic = JString(<<"T">>)
    /\ JsonParse(cleanJsonResponse(tOutcome.text)).topic_summary = JUndefined

\* C14: no request is retried. A process-text or technical-analysis request
\* issues at most one provider call; an enrich-modules request issues at most
\* one search call per module; a request has a response exactly when it has
\* ended, and the response is never replaced; a client handler that completes
\* (with or without failure) takes its request away and sends no other.
NoSecondCall ==
    /\ Len(tCalls) <= 1
    /\ Len(aCalls) <= 1
    /\ \A i, j \in 1..Len(eSent) : i # j => eSent[i] # eSent[j]
    /\ (tPc = "done") <=> (tStatus # 0)
    /\ (aPc = "done") <=> (aStatus # 0)
    /\ (ePc = "done") <=> (eStatus # 0)

NoResend ==
    /\ cDone'.kind \in {"submit", "sendToAI", "ground"}
          => Len(pending') = Len(pending) - 1
    /\ tStatus # 0 => tStatus' = tStatus
    /\ aStatus # 0 => aStatus' = aStatus
    /\ eStatus # 0 => eStatus' = eStatus

C14_NoRetry == []NoSecondCall /\ [][NoResend]_vars

C14_Witness ==
    /\ tPc = "done"
    /\ tOutcome.kind = "http"
    /\ tOutcome.status = 429
    /\ Len(tCalls) = 1
    /\ tStatus = 429

----------------------------------------------------------------------------
(* Claims about the enrichment loop *)

\* C15: within one enrich-modules request at most one search call is in
\* flight at any time, the calls are issued in the order of the modules, and
\* the call for a module is issued only after the calls for all modules
\* before it have completed.
C15_OneCallAtATime ==
    /\ eInFlight \in {0, 1}
    /\ \A k \in 1..Len(eSent) : eSent[k] = k
    /\ eInFlight = 1 =>
          /\ ePc = "await"
          /\ eSent # <<>>
          /\ eSent[Len(eSent)] = eI
          /\ Len(enrichedModules) = eI - 1

C15_Witness ==
    /\ ePc = "await"
    /\ eI = 2
    /\ eInFlight = 1
    /\ eSent = <<1, 2>>
    /\ enrichedModules[1].resources = <<>>

----------------------------------------------------------------------------
(* Claims about the index held by the app page *)

SubmitSucceeded == cDone.kind = "submit" /\ cDone.ok

\* C16: once a resubmission has completed successfully the page holds the
\* index that submission returned, and holds it until the next user action:
\* no step other than a user action replaces it, also when an enrichment
\* request started on the previous index is still in flight.
C16_LatestIndexStays ==
    /\ [](SubmitSucceeded => result # Null)
    /\ [][(SubmitSucceeded /\ cActions' = cActions) => result' = result]_vars

EnrichmentMerged == cDone.kind \in {"sendToAI", "ground"} /\ cDone.ok

KeptFields == {"order", "title", "description", "difficulty"}

\* C17: a successful enrichment merge (of the whole index or of one module)
\* keeps the number of modules and the order, title, description and
\* difficulty of each; it adds no field but resources, leaves the index's
\* topic and summary alone, and a single-module merge leaves the modules of
\* another order as they were; also when the response holds an empty list.
C17_MergeOnlySetsResources ==
    EnrichmentMerged =>
        LET before == cDone.closure.learning_modules
            after == result.learning_modules
        IN /\ Len(after) = Len(before)
           /\ result.main_topic = cDone.closure.main_topic
           /\ result.topic_summary = cDone.closure.topic_summary
           /\ \A i \in 1..Len(before) :
                /\ \A f \in KeptFields : after[i][f] = before[i][f]
                /\ DOMAIN after[i] = KeptFields \cup {"resources"}
                    \/ after[i] = before[i]
                /\ (cDone.kind = "ground" /\ before[i].order # cDone.module.order)
                      => after[i] = before[i]

C17_Witness ==
    /\ EnrichmentMerged
    /\ cDone.kind = "sendToAI"
    /\ Len(result.learning_modules) = 2
    /\ result.learning_modules[1].resources # <<>>
    /\ result.learning_modules[2].resources = <<>>

----------------------------------------------------------------------------
(* Claims about the resources *)

\* C18: for every resource attached to a module by the enrich-modules
\* endpoint, choosing "Technical Analysis" on it sends a request to the
\* technical-analysis endpoint that carries the resource's raw content.
C18_AnalysisRequestSent ==
    cDone.kind = "analysis" =>
        /\ cDone.ok
        /\ pending # <<>>
        /\ pending[Len(pending)].kind = "analysis"
        /\ HasRawContent(cDone.resource)
        /\ pending[Len(pending)].raw_content = cDone.resource.raw_content

\* C19: for every model name the process-text endpoint accepts, exactly one
\* vendor is called, chosen by the prefix of the name: "deepseek-" goes to
\* DeepSeek, "gpt-" to OpenAI, any other accepted name to Gemini, and an
\* omitted model counts as "gemini-2.5-flash"; the call carries the credential
\* of the vendor called, and it is that credential whose absence is answered
\* with 500 and no call.
C19_VendorByPrefix ==
    (tReq.handler = "multi" /\ tPc # "idle" /\ TextValid(tReq)) =>
        LET name == IF tReq.model.t = "string" /\ tReq.model.v # <<>>
                      THEN tReq.model.v ELSE <<"g", "e", "m", "i", "n", "i", "-", "2", ".", "5", "-", "f", "l", "a", "s", "h">>
            expected ==
                IF Len(name) >= 9 /\ SubSeq(name, 1, 9) = <<"d", "e", "e", "p", "s", "e", "e", "k", "-">>
                  THEN "DeepSeek"
                ELSE IF Len(name) >= 4 /\ SubSeq(name, 1, 4) = <<"g", "p", "t", "-">>
                  THEN "OpenAI"
                ELSE "Gemini"
        IN IF expected \in tReq.keys
             THEN tCalls = <<[vendor |-> expected, key |-> expected]>>
             ELSE tCalls = <<>> /\ tPc = "done" /\ tStatus = 500

C19_Witness ==
    /\ tReq.handler = "multi"
    /\ tReq.model = JString(<<"g", "p", "t", "-", "5", "-", "m", "i", "n", "i">>)
    /\ tReq.keys = {"OpenAI"}
    /\ tPc = "done"
    /\ tCalls = <<[vendor |-> "OpenAI", key |-> "OpenAI"]>>

\* C20: in a 200 answer of the enrichment endpoint every module holds at most
\* as many resources as the max_results asked of the search provider, however
\* many results the provider's response contains.
C20_AtMostAskedResources ==
    (ePc = "done" /\ eStatus = 200) =>
        \A i \in 1..Len(enrichedModules) :
            Len(enrichedModules[i].resources) <= MaxResultsAsked

\* C22: after a successful whole-index enrichment merge every module's
\* resources are exactly the results of the search call the endpoint issued
\* for that module, for every index the page can hold.
C22_EachModuleItsOwnResults ==
    (cDone.kind = "sendToAI" /\ cDone.ok) =>
        /\ Len(result.learning_modules) = Len(cDone.outs)
        /\ \A m \in 1..Len(cDone.outs) :
                result.learning_modules[m].resources = Returned(cDone.outs[m])

----------------------------------------------------------------------------
(* Claims about the analysis modal *)

\* C21: the page holds an analysis only while the modal is displayed: whenever
\* showTechnicalAnalysisModal is false, technicalAnalysisData is null, also
\* when the modal is closed while the analysis request is in flight.
C21_AnalysisOnlyWhileShown ==
    ~showTechnicalAnalysisModal => technicalAnalysisData = Null

\* C26: whenever the modal shows an analysis (modal open, isAnalyzing false,
\* technicalAnalysisData not null), it is the answer to the request made for
\* the resource named by analyzingResourceKey; the answer to an earlier
\* request is never shown after the modal was closed and opened again for
\* another resource.
C26_ShownAnalysisIsOfKey ==
    (showTechnicalAnalysisModal /\ ~isAnalyzing /\ technicalAnalysisData # Null)
        => technicalAnalysisData.of = analyzingResourceKey

----------------------------------------------------------------------------
(* Claims about the prompt *)

\* C23: for every text, the prompt is the template with its placeholder
\* replaced by the text verbatim: the template's prefix, then the text
\* character for character, then the template's suffix, also when the text
\* holds "$" sequences or the placeholder itself.
C23_TextVerbatimInPrompt ==
    pDone =>
        pOut = PromptTemplate(pIn.endpoint).prefix \o pIn.text
                    \o PromptTemplate(pIn.endpoint).suffix

----------------------------------------------------------------------------
(* Claims about concurrent enrichments on the app page *)

\* C24: a whole-index enrichment request ("Send to AI") and a single-module
\* enrichment request ("Ground") are never in flight at the same time, each
\* action being started only while its button is enabled.
C24_NeverBothInFlight ==
    ~(/\ \E k \in 1..Len(pending) : pending[k].kind = "sendToAI"
      /\ \E k \in 1..Len(pending) : pending[k].kind = "ground")

\* C25: when single-module enrichments for two different modules a and b are
\* both started before either answer arrives and both answers are handled
\* successfully, module a then holds the resources returned for a and module b
\* those returned for b.  Stated for the step that handles the second answer
\* right after the first, for modules that differ in order and in title.
C25_NeitherUpdateLost ==
    [][(/\ cDone.kind = "ground" /\ cDone.ok
        /\ cDone'.kind = "ground" /\ cDone'.ok
        /\ cDone.module.order # cDone'.module.order
        /\ cDone.module.title # cDone'.module.title)
       => \A i \in 1..Len(result'.learning_modules) :
            LET m == result'.learning_modules[i] IN
            /\ m.order = cDone.module.order =>
                    /\ "resources" \in DOMAIN m
                    /\ m.resources = Returned(cDone.outs[1])
            /\ m.order = cDone'.module.order =>
                    /\ "resources" \in DOMAIN m
                    /\ m.resources = Returned(cDone'.outs[1])]_vars

\* C29: when an enrichment request fails (an answer that is not 2xx, a
\* rejected fetch, or a body without enriched_modules), handling the answer
\* leaves the index held by the page as it is and resets the in-progress flag
\* of the action: isEnriching for the whole index, enrichingModule for one
\* module.
C29_FailureLeavesIndex ==
    [][(cDone'.kind \in {"sendToAI", "ground"} /\ ~cDone'.ok) =>
            /\ result' = result
            /\ cDone'.kind = "sendToAI" => isEnriching' = FALSE
            /\ cDone'.kind = "ground" => enrichingModule' = NullOrder]_vars

\* A single-module enrichment has failed while the page holds an index with
\* resources merged earlier.
C29_Witness ==
    /\ cDone.kind = "ground" /\ ~cDone.ok
    /\ result # Null
    /\ \E i \in 1..Len(result.learning_modules) :
            /\ "resources" \in DOMAIN result.learning_modules[i]
            /\ result.learning_modules[i].resources # <<>>
    /\ enrichingModule = NullOrder

----------------------------------------------------------------------------
(* Claims about the auth endpoint *)

\* C28: the auth endpoint sets the authenticated cookie only in the answer to
\* a request whose password is strictly equal to a non-empty configured
\* ACCESS_PASSWORD (status 200); a different or missing password gives 401
\* without a cookie, an unset or empty ACCESS_PASSWORD gives 500 without a
\* cookie whatever the password, and a body that does not parse gives 400
\* without a cookie.
C28_CookieOnlyForThePassword ==
    /\ accessPassword = "" => cookieJar = "none"
    /\ navLast.kind = "auth" =>
        /\ navLast.setCookie <=>
                /\ navLast.parsable
                /\ accessPassword # ""
                /\ navLast.password = accessPassword
        /\ navLast.setCookie => navLast.status = 200 /\ navLast.cookie = "true"
        /\ ~navLast.parsable => navLast.status = 400
        /\ navLast.parsable /\ accessPassword = "" => navLast.status = 500
        /\ (navLast.parsable /\ accessPassword # ""
                /\ navLast.password # accessPassword) => navLast.status = 401
        /\ ~navLast.setCookie => navLast.status \in {400, 401, 500}

\* The endpoint has answered 500 to the password "" posted while
\* ACCESS_PASSWORD is empty, and the browser holds no cookie.
C28_Witness ==
    /\ navLast.kind = "auth"
    /\ navLast.parsable
    /\ navLast.password = ""
    /\ accessPassword = ""
    /\ navLast.status = 500
    /\ cookieJar = "none"

----------------------------------------------------------------------------
(* Claims about where a navigation ends *)

\* C27: a navigation settles: from any cookie, any sessionStorage flag and a
\* starting path "/" or "/app" with any redirect parameter, the redirects of
\* the middleware and the push of the app page's check end, after finitely
\* many hops, on a page from which no further request leaves.
C27_NavigationSettles ==
    <>[](\A t \in Tabs : tabs[t].req = NoUrl /\ ~tabs[t].effect)

----------------------------------------------------------------------------
(* Claims about who reaches the providers *)

\* C30: a provider is called only for a request that carries the cookie
\* authenticated=true: once a search has been sent by enrich-modules, or a
\* model has been called by process-text or technical-analysis, the request
\* being served carried the cookie.
C30_ProvidersOnlyWithCookie ==
    (eSent # <<>> \/ tCalls # <<>> \/ aCalls # <<>>) => cookieJar = "true"

============================================================================
